---- MODULE Spec2Model ----
(***************************************************************************)
(* Request execution and retry engine of the reqwest HTTP client.          *)
(*                                                                         *)
(* One behaviour of Spec is: a ClientBuilder is configured and built, then *)
(* one logical call (Get or Post) runs client.execute against an           *)
(* environment made of the middlewares, the HTTP transport, the backoff    *)
(* timer and the caller's context.                                         *)
(*                                                                         *)
(* Representation                                                          *)
(*   error       a sequence of text fragments, <<>> is the nil error;      *)
(*               fmt.Errorf("p: %v", e) is <<"p">> \o e                    *)
(*   *Response   a record, field nil marks the nil pointer                 *)
(*   *RetryConfig a record, field nil marks the nil pointer                *)
(*   io.Reader   a record (nil, buf, off): a buffer and its read offset    *)
(***************************************************************************)
EXTENDS Integers, Sequences, FiniteSets, TLC

(***************************************************************************)
(* Bounds of the model.                                                    *)
(***************************************************************************)
MaxRetriesArg == 1
MaxMiddlewares == 2
MaxBodyLen == 1
MaxDuration == 127
MaxCount == 7
JitterDraws == 4
MaxURLLen == 4
MaxBuilds == 2

(***************************************************************************)
(* Program constants.                                                      *)
(***************************************************************************)
DefaultMaxRetries == 3

\* DefaultRetryableStatusCodes without 429 Too Many Requests
DefaultRetryableStatusCodes_ServerErrors == {500, 502, 503, 504}

DefaultRetryableStatusCodes == {429, 500, 502, 503, 504}

DefaultRetryableErrors ==
    {"connection refused", "timeout", "temporary failure", "no such host"}

\* durations are counted in ticks of 100ms
DefaultExponentialBaseDelay == 1

DefaultExponentialMultiplier == <<2, 1>>

DefaultExponentialMaxDelay == 100

DefaultFixedBackoffDelay == 10

(***************************************************************************)
(* Values the environment and the caller draw from.                        *)
(***************************************************************************)
StatusCodes == {200, 404, 503}

Middlewares == {"m1", "m2"}

NoErr == <<>>

Canceled == <<"context canceled">>

DeadlineExceeded == <<"context deadline exceeded">>

\* errors a middleware may return
MiddlewareErrors == {<<"middleware failed">>, <<"auth TIMEOUT">>}

\* errors http.Client.Do may return while the context is live (*url.Error:
\* operation, URL, cause)
TransportCauses == {"connection refused", "EOF"}

\* the bodies handed to Post: the first n bytes of "abab..."
Bodies == {[i \in 1..n |-> IF i % 2 = 1 THEN "a" ELSE "b"] : n \in 0..MaxBodyLen}

(***************************************************************************)
(* strings.ToLower on one text fragment.                                   *)
(***************************************************************************)
ToLower(s) ==
    CASE s = "auth TIMEOUT" -> "auth timeout"
      [] s = "Get" -> "get"
      [] s = "Post" -> "post"
      [] s = "EOF" -> "eof"
      [] OTHER -> s

\* the fragments of s that contain sub as a substring
HasSubstring(s, sub) ==
    \/ s = sub
    \/ s = "auth timeout" /\ sub = "timeout"

\* strings.Contains(strings.ToLower(err.Error()), sub)
ContainsLower(err, sub) ==
    \E i \in 1..Len(err) : HasSubstring(ToLower(err[i]), sub)

\* strings.Contains(err.Error(), sub)
Contains(err, sub) ==
    \E i \in 1..Len(err) : HasSubstring(err[i], sub)

(***************************************************************************)
(* A URL is a sequence of the pieces of URLTokens: the two schemes, the     *)
(* slash and a path segment.                                               *)
(***************************************************************************)
URLTokens == {"http:", "https:", "/", "a"}

URLs == UNION {[1..n -> URLTokens] : n \in 0..MaxURLLen}

\* strings.HasPrefix
HasPrefix(s, prefix) ==
    Len(s) >= Len(prefix) /\ SubSeq(s, 1, Len(prefix)) = prefix

\* strings.TrimLeft(s, "/")
RECURSIVE TrimLeft(_)
TrimLeft(s) ==
    IF s # <<>> /\ Head(s) = "/" THEN TrimLeft(Tail(s)) ELSE s

\* strings.TrimRight(s, "/")
RECURSIVE TrimRight(_)
TrimRight(s) ==
    IF s # <<>> /\ s[Len(s)] = "/" THEN TrimRight(SubSeq(s, 1, Len(s) - 1)) ELSE s

\* buildURL that joins the URL as it is given
buildURL_NoTrim(base, url) ==
    IF base = <<>> THEN url
    ELSE IF HasPrefix(url, <<"https:", "/", "/">>) \/ HasPrefix(url, <<"http:", "/", "/">>)
    THEN url
    ELSE base \o <<"/">> \o url

\* client.buildURL on a client whose baseURL is base
buildURL(base, url) ==
    IF base = <<>> THEN url
    ELSE IF HasPrefix(url, <<"https:", "/", "/">>) \/ HasPrefix(url, <<"http:", "/", "/">>)
    THEN url
    ELSE base \o <<"/">> \o TrimLeft(url)

(***************************************************************************)
(* retry.go: RetryConfig and its builder.                                  *)
(***************************************************************************)
NilConfig ==
    [nil |-> TRUE, maxRetries |-> 0, retryableStatusCodes |-> {},
     retryableError |-> {}, backoffStrategy |-> "nil"]

\* &RetryConfig{}
ZeroRetryConfig ==
    [nil |-> FALSE, maxRetries |-> 0, retryableStatusCodes |-> {},
     retryableError |-> {}, backoffStrategy |-> "nil"]

\* RetryConfigBuild that keeps a maxRetries of 0
RetryConfigBuild_KeepZero(cfg) ==
    [nil |-> FALSE,
     maxRetries |-> IF cfg.maxRetries < 0 THEN DefaultMaxRetries
                    ELSE cfg.maxRetries,
     backoffStrategy |-> IF cfg.backoffStrategy = "nil" THEN "exponential"
                         ELSE cfg.backoffStrategy,
     retryableStatusCodes |->
         IF Cardinality(cfg.retryableStatusCodes) = 0
         THEN DefaultRetryableStatusCodes ELSE cfg.retryableStatusCodes,
     retryableError |->
         IF Cardinality(cfg.retryableError) = 0
         THEN DefaultRetryableErrors ELSE cfg.retryableError]

\* retryConfigBuilder.Build: fill the degenerate fields with the defaults
\* (retryableStatusCodes, a slice, is modelled by the set of its elements)
RetryConfigBuild(cfg) ==
    [nil |-> FALSE,
     maxRetries |-> IF cfg.maxRetries <= 0 THEN DefaultMaxRetries
                    ELSE cfg.maxRetries,
     backoffStrategy |-> IF cfg.backoffStrategy = "nil" THEN "exponential"
                         ELSE cfg.backoffStrategy,
     retryableStatusCodes |->
         IF Cardinality(cfg.retryableStatusCodes) = 0
         THEN DefaultRetryableStatusCodes ELSE cfg.retryableStatusCodes,
     retryableError |->
         IF Cardinality(cfg.retryableError) = 0
         THEN DefaultRetryableErrors ELSE cfg.retryableError]

\* what the With* methods of the retry-config builder are called with
RetryConfigArgs ==
    {[nil |-> FALSE, maxRetries |-> n, retryableStatusCodes |-> p[1],
      retryableError |-> p[2], backoffStrategy |-> "nil"] :
        n \in 0..MaxRetriesArg,
        p \in {<<{}, {}>>, <<{404}, {"context canceled", "middleware error"}>>}}

\* the configurations a caller can hand to WithRetryConfig
RetryConfigs ==
    {NilConfig, ZeroRetryConfig} \cup {RetryConfigBuild(a) : a \in RetryConfigArgs}

(***************************************************************************)
(* retry.go: backoff strategies.                                           *)
(*                                                                         *)
(* time.Duration, an int64 of nanoseconds, is modelled as a signed integer *)
(* of ticks in MinDuration..MaxDuration. A float64 is modelled as the      *)
(* exact rational <<numerator, denominator>> with denominator > 0: the     *)
(* rounding of float64 arithmetic is not modelled, its range is taken to   *)
(* contain every value the model computes.                                 *)
(***************************************************************************)
MinDuration == 0 - MaxDuration - 1

RECURSIVE Power(_, _)
Power(b, n) == IF n = 0 THEN 1 ELSE b * Power(b, n - 1)

\* math.Pow(x, float64(count)) for x > 0
Pow(x, count) ==
    IF count >= 0 THEN <<Power(x[1], count), Power(x[2], count)>>
    ELSE <<Power(x[2], 0 - count), Power(x[1], 0 - count)>>

\* the integer part of num/den, den > 0
Trunc(num, den) ==
    IF num >= 0 THEN num \div den ELSE 0 - ((0 - num) \div den)

\* time.Duration(f) of the float64 f: the fraction is discarded; a value
\* outside the range of int64 converts to what the architecture's
\* instruction yields, the smallest int64 on amd64 and the nearest int64 on
\* arm64
ToDuration(f, arch) ==
    IF Trunc(f[1], f[2]) >= MinDuration /\ Trunc(f[1], f[2]) <= MaxDuration
    THEN Trunc(f[1], f[2])
    ELSE IF arch = "amd64" THEN MinDuration
    ELSE IF f[1] > 0 THEN MaxDuration
    ELSE MinDuration

\* jitter25: (rand.Float64() - 0.5) * 2.0 * (float64(delay) * 0.25), where
\* rand.Float64() returned rnd/JitterDraws
jitter25(delay, rnd) ==
    <<delay * (2 * rnd - JitterDraws), 4 * JitterDraws>>

\* float64(delay) + f
AddFloat(delay, f) == <<delay * f[2] + f[1], f[2]>>

\* ExponentialBackoff.Delay
ExponentialDelay(e, count, arch, rnd) ==
    LET delay0 == ToDuration(<<e.baseDelay * Pow(e.multiplier, count)[1],
                               Pow(e.multiplier, count)[2]>>, arch)
        delay1 == IF delay0 > e.maxDelay THEN e.maxDelay ELSE delay0
        delay2 == ToDuration(AddFloat(delay1, jitter25(delay1, rnd)), arch)
    IN  IF e.jitter
        THEN IF delay2 < 0 THEN e.baseDelay ELSE delay2
        ELSE delay1

\* FixedDelay that grows with the attempt number
FixedDelay_Linear(f, count, arch, rnd) == f.delay * count

\* FixedBackoff.Delay
FixedDelay(f, count, arch, rnd) ==
    LET delay2 == ToDuration(AddFloat(f.delay, jitter25(f.delay, rnd)), arch)
    IN  IF f.jitter
        THEN IF delay2 < 0 THEN f.delay ELSE delay2
        ELSE f.delay

\* Delay that adds the jitter whether or not the strategy asks for it
Delay_Jittered(s, count, arch, rnd) ==
    IF s.kind = "fixed" THEN FixedDelay([s EXCEPT !.jitter = TRUE], count, arch, rnd)
    ELSE ExponentialDelay([s EXCEPT !.jitter = TRUE], count, arch, rnd)

\* BackoffStrategy.Delay
Delay(s, count, arch, rnd) ==
    IF s.kind = "fixed" THEN FixedDelay(s, count, arch, rnd)
    ELSE ExponentialDelay(s, count, arch, rnd)

\* no backoff strategy and no builder of one
NilStrategy ==
    [kind |-> "nil", built |-> FALSE, baseDelay |-> 0, multiplier |-> <<0, 1>>,
     maxDelay |-> 0, delay |-> 0, jitter |-> FALSE]

\* &ExponentialBackoff{} held by a new builder
NewExponentialBackoffBuilder ==
    [kind |-> "exponential", built |-> FALSE, baseDelay |-> 0, multiplier |-> <<0, 1>>,
     maxDelay |-> 0, delay |-> 0, jitter |-> FALSE]

\* &FixedBackoff{} held by a new builder
NewFixedBackoffBuilder ==
    [kind |-> "fixed", built |-> FALSE, baseDelay |-> 0, multiplier |-> <<0, 1>>,
     maxDelay |-> 0, delay |-> 0, jitter |-> FALSE]

\* ExponentialBackoffBuild that keeps a maxDelay of 0
ExponentialBackoffBuild_KeepZero(b) ==
    [b EXCEPT !.built = TRUE,
              !.baseDelay = IF @ <= 0 THEN DefaultExponentialBaseDelay ELSE @,
              !.multiplier = IF @[1] <= 0 THEN DefaultExponentialMultiplier ELSE @,
              !.maxDelay = IF @ < 0 THEN DefaultExponentialMaxDelay ELSE @]

\* exponentialBackoffBuilder.Build
ExponentialBackoffBuild(b) ==
    [b EXCEPT !.built = TRUE,
              !.baseDelay = IF @ <= 0 THEN DefaultExponentialBaseDelay ELSE @,
              !.multiplier = IF @[1] <= 0 THEN DefaultExponentialMultiplier ELSE @,
              !.maxDelay = IF @ <= 0 THEN DefaultExponentialMaxDelay ELSE @]

\* fixedBackoffBuilder.Build
FixedBackoffBuild(b) ==
    [b EXCEPT !.built = TRUE,
              !.delay = IF @ <= 0 THEN DefaultFixedBackoffDelay ELSE @]

\* what the With* methods of the backoff builders are called with
BaseDelays == {0, 3, 40}

Multipliers == {<<0, 1>>, <<1, 2>>, <<3, 1>>}

MaxDelays == {0, 20, 120}

FixedDelays == {0 - 5, 3, 120}

\* the strategy a retry configuration holds: the one Build creates with
\* NewExponentialBackoffBuilder().Build() when none was given
BackoffStrategyOf(cfg) ==
    CASE cfg.backoffStrategy = "exponential" ->
             ExponentialBackoffBuild(NewExponentialBackoffBuilder)
      [] cfg.backoffStrategy = "fixed" ->
             FixedBackoffBuild(NewFixedBackoffBuilder)
      [] OTHER -> NilStrategy

(***************************************************************************)
(* response.go                                                             *)
(***************************************************************************)
NilResponse == [nil |-> TRUE, statusCode |-> 0, retryAttempts |-> 0]

fromHTTPResponse(status) ==
    [nil |-> FALSE, statusCode |-> status, retryAttempts |-> 0]

(***************************************************************************)
(* client.go: helpers                                                      *)
(***************************************************************************)
NilReader == [nil |-> TRUE, buf |-> <<>>, off |-> 0]

\* bytes.NewBuffer
NewBuffer(content) == [nil |-> FALSE, buf |-> content, off |-> 0]

\* io.ReadAll: the bytes not yet read
ReadAll(r) == IF r.nil THEN <<>> ELSE SubSeq(r.buf, r.off + 1, Len(r.buf))

\* the reader after io.ReadAll
Drained(r) == IF r.nil THEN r ELSE [r EXCEPT !.off = Len(r.buf)]

\* bodyReaderFromByteSlice with the length test off by one
bodyReaderFromByteSlice_OffByOne(content) ==
    IF Len(content) > 1 THEN NewBuffer(content) ELSE NilReader

bodyReaderFromByteSlice(content) ==
    IF Len(content) > 0 THEN NewBuffer(content) ELSE NilReader

\* contextCancelled that always takes the default case of its select
contextCancelled_Never(err) == NoErr

\* contextCancelled: ctx.Err() when ctx.Done() is closed, else nil
contextCancelled(err) == IF err # NoErr THEN err ELSE NoErr

\* shouldRetry that tests the default status codes instead of the configured ones
shouldRetry_Defaults(cfg, r) ==
    IF cfg.nil \/ r.nil THEN FALSE
    ELSE r.statusCode \in DefaultRetryableStatusCodes

\* shouldRetry that takes every server error for retryable
shouldRetry_ServerErrors(cfg, r) ==
    IF cfg.nil \/ r.nil THEN FALSE
    ELSE r.statusCode >= 500

shouldRetry(cfg, r) ==
    IF cfg.nil \/ r.nil THEN FALSE
    ELSE r.statusCode \in cfg.retryableStatusCodes

\* shouldRetryError that does not lower-case the text of the error
shouldRetryError_CaseSensitive(cfg, err) ==
    IF cfg.nil \/ err = NoErr THEN FALSE
    ELSE \E retryableErr \in cfg.retryableError : Contains(err, retryableErr)

\* shouldRetryError that takes every error for a retryable one
shouldRetryError_Always(cfg, err) ==
    ~cfg.nil /\ err # NoErr

shouldRetryError(cfg, err) ==
    IF cfg.nil \/ err = NoErr THEN FALSE
    ELSE \E retryableErr \in cfg.retryableError : ContainsLower(err, retryableErr)

\* execute, lines 55-58
MaxAttempts(cfg) == IF cfg.nil THEN 1 ELSE cfg.maxRetries + 1

\* SuccessResult that reports the number of attempts instead of retries
SuccessResult_OffByOne(r, att) ==
    [resp |-> [r EXCEPT !.retryAttempts = att + 1], err |-> NoErr]

\* SuccessResult that leaves retryAttempts as fromHTTPResponse set it
SuccessResult_Unset(r, att) ==
    [resp |-> r, err |-> NoErr]

\* execute, lines 69-73: the result when no retry is needed
SuccessResult(r, att) ==
    [resp |-> [r EXCEPT !.retryAttempts = att], err |-> NoErr]

\* FinalResult that reports maxAttempts as the number of retries
FinalResult_OffByOne(r, err, maxAtt) ==
    IF ~r.nil THEN [resp |-> [r EXCEPT !.retryAttempts = maxAtt], err |-> err]
    ELSE [resp |-> NilResponse, err |-> err]

\* FinalResult that returns a nil error
FinalResult_DropError(r, err, maxAtt) ==
    IF ~r.nil THEN [resp |-> [r EXCEPT !.retryAttempts = maxAtt - 1], err |-> NoErr]
    ELSE [resp |-> NilResponse, err |-> NoErr]

\* execute, lines 84-91: the result after the loop
FinalResult(r, err, maxAtt) ==
    IF ~r.nil THEN [resp |-> [r EXCEPT !.retryAttempts = maxAtt - 1], err |-> err]
    ELSE [resp |-> NilResponse, err |-> err]

(***************************************************************************)
(* State                                                                   *)
(***************************************************************************)
VARIABLES
    cb,           \* the ClientBuilder: middlewares, retryConfig
    c,            \* the built client: middlewares, retryConfig
    pc,           \* position of the program
    ctxErr,       \* ctx.Err(): NoErr until the caller's signal fires
    method,       \* "Get" or "Post"
    argBody,      \* the body handed to Post
    urlOK,        \* whether http.NewRequestWithContext accepts method and URL
    body,         \* execute's io.Reader parameter
    bodyBytes,    \* execute's cached body
    maxAttempts,  \* execute's local
    attempt,      \* execute's loop counter
    resp,         \* execute's local
    lastErr,      \* execute's local
    req,          \* executeOnce's request: its body reader
    mwIdx,        \* executeOnce's position in c.middlewares
    timerFired,   \* whether the channel of time.After(delay) is ready
    sel,          \* applyBackoff's select: "none", "entered", "parked", or the case that woke it
    waitDelay,    \* applyBackoff's local delay: the duration handed to time.After
    ret,          \* what execute returned
    attempts,     \* history: calls of executeOnce
    exchanges,    \* history: calls of httpClient.Do
    waits,        \* history: backoff waits begun
    waitsDone,    \* history: backoff waits ended by the timer
    chainRuns,    \* history: runs of the middleware loop
    mwLog,        \* history: middlewares invoked in the current attempt
    mwErrAt,      \* history: index of the middleware that failed in it, or 0
    exchanged,    \* history: whether the current attempt reached httpClient.Do
    seenBodies,   \* history: the request body the transport read, per exchange
    outcomes,     \* history: (resp, err) of every executeOnce
    respBodies,   \* history: the state of the response body of every executeOnce
    cancelAt,     \* history: where the program was when the signal fired
    argResp,      \* the *Response a retry predicate is called with
    argErr,       \* the error a retry predicate is called with
    predRet,      \* the predicate called last and what it returned
    strategy,     \* a BackoffStrategy as its builder left it
    goarch,       \* the architecture the program is built for
    delayRet,     \* the last call of strategy.Delay: its argument and result
    rb,           \* a retryConfigBuilder: the RetryConfig its field config points to
    buildRet,     \* the last call of rb's Build: the fields on entry and on return
    calls,        \* the goroutines that run c.execute concurrently: the locals of each
    cbBaseURL,    \* the ClientBuilder's baseURL
    baseURL,      \* the built client's baseURL
    urlRet,       \* the last call of c.buildURL: its argument and result
    heap,         \* the clients allocated by ClientBuilder.Build, by address
    builds        \* history: what every call of ClientBuilder.Build returned

cfgVars == <<cb, c>>
inVars == <<method, argBody, urlOK>>
locVars == <<body, bodyBytes, maxAttempts, attempt, resp, lastErr, req, mwIdx>>
histVars == <<attempts, exchanges, waits, waitsDone, chainRuns, mwLog, mwErrAt,
              exchanged, seenBodies, outcomes, respBodies>>
boVars == <<timerFired, sel, waitDelay>>
rcVars == <<rb, buildRet>>
urlVars == <<cbBaseURL, baseURL, urlRet>>
bldVars == <<heap, builds>>
fnVars == <<argResp, argErr, predRet, strategy, goarch, delayRet, rcVars, calls, urlVars, bldVars>>
vars == <<cfgVars, pc, ctxErr, inVars, locVars, boVars, ret, histVars, cancelAt, fnVars>>

NoReturn == [resp |-> NilResponse, err |-> NoErr]

NotCancelled ==
    [pc |-> "none", attempts |-> 0, exchanges |-> 0, waitsDone |-> 0, timerFired |-> FALSE]

\* no retry predicate has been called
NoPredicate == [fn |-> "none", value |-> FALSE]

\* Delay has not been called
NoDelay == [called |-> FALSE, count |-> 0, rnd |-> 0, value |-> 0]

\* no call of execute has begun
CallIdle ==
    /\ ctxErr = NoErr
    /\ method = "Get"
    /\ argBody = <<>>
    /\ urlOK = TRUE
    /\ body = NilReader
    /\ bodyBytes = <<>>
    /\ maxAttempts = 0
    /\ attempt = 0
    /\ resp = NilResponse
    /\ lastErr = NoErr
    /\ req = [body |-> NilReader, header |-> <<>>]
    /\ mwIdx = 0
    /\ timerFired = FALSE
    /\ sel = "none"
    /\ waitDelay = 0
    /\ ret = NoReturn
    /\ attempts = 0
    /\ exchanges = 0
    /\ waits = 0
    /\ waitsDone = 0
    /\ chainRuns = 0
    /\ mwLog = <<>>
    /\ mwErrAt = 0
    /\ exchanged = FALSE
    /\ seenBodies = <<>>
    /\ respBodies = <<>>
    /\ outcomes = <<>>
    /\ cancelAt = NotCancelled

\* the retry predicates are not exercised
PredicatesIdle ==
    /\ argResp = NilResponse
    /\ argErr = NoErr
    /\ predRet = NoPredicate

\* the backoff strategies are not exercised
StrategyIdle ==
    /\ strategy = NilStrategy
    /\ goarch = "amd64"
    /\ delayRet = NoDelay

NoBuild == [called |-> FALSE, arg |-> ZeroRetryConfig, value |-> NilConfig]

\* no retry-config builder is exercised
RetryConfigIdle ==
    /\ rb = ZeroRetryConfig
    /\ buildRet = NoBuild

\* the goroutines of the concurrent calls
Calls == {1, 2}

\* a goroutine that has not called the client yet
IdleCall ==
    [pc |-> "idle", ctxErr |-> NoErr, method |-> "Get", argBody |-> <<>>,
     bodyBytes |-> <<>>, maxAttempts |-> 0, attempt |-> 0, resp |-> NilResponse,
     lastErr |-> NoErr, ret |-> NoReturn, seenBodies |-> <<>>, outcomes |-> <<>>]

\* no goroutine calls the client concurrently
ConcurrentIdle == calls = <<>>

NoURL == [called |-> FALSE, url |-> <<>>, value |-> <<>>]

\* no base URL is set and buildURL is not exercised
URLIdle ==
    /\ cbBaseURL = <<>>
    /\ baseURL = <<>>
    /\ urlRet = NoURL

\* ClientBuilder.Build has not been called
ClientBuilderIdle ==
    /\ heap = <<>>
    /\ builds = <<>>

Init ==
    /\ cb = [middlewares |-> <<>>, retryConfig |-> NilConfig]
    /\ c = [middlewares |-> <<>>, retryConfig |-> NilConfig]
    /\ pc = "builder"
    /\ CallIdle
    /\ PredicatesIdle
    /\ StrategyIdle
    /\ RetryConfigIdle
    /\ ConcurrentIdle
    /\ URLIdle
    /\ ClientBuilderIdle

(***************************************************************************)
(* builder.go: ClientBuilder                                               *)
(***************************************************************************)
WithMiddleware(m) ==
    /\ pc = "builder"
    /\ Len(cb.middlewares) < MaxMiddlewares
    /\ cb' = [cb EXCEPT !.middlewares = Append(@, m)]
    /\ UNCHANGED <<fnVars, c, pc, ctxErr, inVars, locVars, boVars, ret, histVars, cancelAt>>

WithRetryConfig(config) ==
    /\ pc = "builder"
    /\ cb' = [cb EXCEPT !.retryConfig = config]
    /\ UNCHANGED <<fnVars, c, pc, ctxErr, inVars, locVars, boVars, ret, histVars, cancelAt>>

WithRetries ==
    /\ pc = "builder"
    /\ cb' = [cb EXCEPT !.retryConfig = RetryConfigBuild(ZeroRetryConfig)]
    /\ UNCHANGED <<fnVars, c, pc, ctxErr, inVars, locVars, boVars, ret, histVars, cancelAt>>

\* retryConfigBuilder.WithMaxRetries called after Build, on the builder whose
\* configuration the client builder holds: Build returns the builder's own
\* *RetryConfig, so the call writes the field of that configuration
WithMaxRetries(maxRetries) ==
    /\ pc = "builder"
    /\ ~cb.retryConfig.nil
    /\ Cardinality(cb.retryConfig.retryableStatusCodes) > 0
    /\ cb' = [cb EXCEPT !.retryConfig.maxRetries = maxRetries]
    /\ UNCHANGED <<fnVars, c, pc, ctxErr, inVars, locVars, boVars, ret, histVars, cancelAt>>

\* retryConfigBuilder.WithBackoffStrategy called after Build, on the builder
\* whose configuration the client builder holds: the call writes the field
\* of that configuration
WithBackoffStrategyAfterBuild(s) ==
    /\ pc = "builder"
    /\ ~cb.retryConfig.nil
    /\ Cardinality(cb.retryConfig.retryableStatusCodes) > 0
    /\ cb' = [cb EXCEPT !.retryConfig.backoffStrategy = s]
    /\ UNCHANGED <<fnVars, c, pc, ctxErr, inVars, locVars, boVars, ret, histVars, cancelAt>>

\* Build that falls back to the default retry configuration when the
\* builder has none
Build_DefaultRetries ==
    /\ pc = "builder"
    /\ c' = [middlewares |-> [i \in 1..Len(cb.middlewares) |-> cb.middlewares[i]],
             retryConfig |-> IF cb.retryConfig.nil THEN RetryConfigBuild(ZeroRetryConfig)
                             ELSE cb.retryConfig]
    /\ pc' = "idle"
    /\ UNCHANGED <<fnVars, cb, ctxErr, inVars, locVars, boVars, ret, histVars, cancelAt>>

Build ==
    /\ pc = "builder"
    /\ c' = [middlewares |-> [i \in 1..Len(cb.middlewares) |-> cb.middlewares[i]],
             retryConfig |-> cb.retryConfig]
    /\ pc' = "idle"
    /\ UNCHANGED <<fnVars, cb, ctxErr, inVars, locVars, boVars, ret, histVars, cancelAt>>

(***************************************************************************)
(* client.go: execute                                                      *)
(***************************************************************************)
\* execute, lines 42-58, entered with the reader b
Execute(m, b, ok) ==
    /\ method' = m
    /\ urlOK' = ok
    /\ bodyBytes' = ReadAll(b)
    /\ body' = Drained(b)
    /\ maxAttempts' = MaxAttempts(c.retryConfig)
    /\ attempt' = 0
    /\ resp' = NilResponse
    /\ lastErr' = NoErr
    /\ pc' = "loop"
    /\ UNCHANGED <<fnVars, cfgVars, ctxErr, req, mwIdx, boVars, ret, histVars, cancelAt>>

Get(ok) ==
    /\ pc = "idle"
    /\ argBody' = <<>>
    /\ Execute("Get", NilReader, ok)

Post(content, ok) ==
    /\ pc = "idle"
    /\ argBody' = content
    /\ Execute("Post", NewBuffer(content), ok)

\* execute returns
Return(result) ==
    /\ ret' = result
    /\ pc' = "done"

\* execute, lines 60-66: the loop condition, the cancellation check and
\* applyBackoff up to the evaluation of time.After(delay), which starts the
\* timer; Delay called on a nil BackoffStrategy is a nil dereference, and the
\* goroutine panics
LoopHead ==
    /\ pc = "loop"
    /\ IF ~(attempt < maxAttempts)
       THEN /\ Return(FinalResult(resp, lastErr, maxAttempts))
            /\ UNCHANGED <<boVars, waits>>
       ELSE IF contextCancelled(ctxErr) # NoErr
       THEN /\ Return([resp |-> NilResponse, err |-> contextCancelled(ctxErr)])
            /\ UNCHANGED <<boVars, waits>>
       ELSE IF attempt > 0 /\ ~c.retryConfig.nil /\ c.retryConfig.backoffStrategy = "nil"
       THEN /\ pc' = "panic"
            /\ UNCHANGED <<boVars, waits, ret>>
       ELSE IF attempt > 0 /\ ~c.retryConfig.nil
       THEN /\ pc' = "backoff"
            /\ \E rnd \in 0..(JitterDraws - 1) :
                 waitDelay' = Delay(BackoffStrategyOf(c.retryConfig), attempt, goarch, rnd)
            /\ timerFired' = FALSE
            /\ sel' = "entered"
            /\ waits' = waits + 1
            /\ ret' = ret
       ELSE /\ pc' = "executeOnce"
            /\ UNCHANGED <<boVars, waits, ret>>
    /\ UNCHANGED <<fnVars, cfgVars, ctxErr, inVars, locVars, attempts, exchanges, waitsDone,
                   chainRuns, mwLog, mwErrAt, exchanged, seenBodies, outcomes, respBodies, cancelAt>>

\* the runtime timer behind time.After(delay) sends on its channel; a
\* goroutine parked in the select is woken with the timer case
TimerFires ==
    /\ pc = "backoff"
    /\ ~timerFired
    /\ timerFired' = TRUE
    /\ sel' = IF sel = "parked" THEN "timer" ELSE sel
    /\ UNCHANGED <<fnVars, cfgVars, pc, ctxErr, inVars, locVars, waitDelay, ret, histVars, cancelAt>>

\* applyBackoff, lines 159-163: the select finds no case ready and blocks
ApplyBackoffPark ==
    /\ pc = "backoff"
    /\ sel = "entered"
    /\ ~timerFired
    /\ ctxErr = NoErr
    /\ sel' = "parked"
    /\ UNCHANGED <<fnVars, cfgVars, pc, ctxErr, inVars, locVars, timerFired, waitDelay, ret,
                   histVars, cancelAt>>

\* ApplyBackoffElapsed that does not wait for the timer (a select with a
\* default case)
ApplyBackoffElapsed_NoWait ==
    /\ pc = "backoff"
    /\ sel \in {"entered", "timer"}
    /\ pc' = "executeOnce"
    /\ sel' = "none"
    /\ waitsDone' = waitsDone + 1
    /\ UNCHANGED <<fnVars, cfgVars, ctxErr, inVars, locVars, timerFired, waitDelay, ret, attempts, exchanges,
                   waits, chainRuns, mwLog, mwErrAt, exchanged, seenBodies, outcomes, respBodies,
                   cancelAt>>

\* applyBackoff, line 160: the select takes the timer case, because the
\* timer woke it or because it chose this case among the ready ones
ApplyBackoffElapsed ==
    /\ pc = "backoff"
    /\ \/ sel = "entered" /\ timerFired
       \/ sel = "timer"
    /\ pc' = "executeOnce"
    /\ sel' = "none"
    /\ waitsDone' = waitsDone + 1
    /\ UNCHANGED <<fnVars, cfgVars, ctxErr, inVars, locVars, timerFired, waitDelay, ret, attempts, exchanges,
                   waits, chainRuns, mwLog, mwErrAt, exchanged, seenBodies, outcomes, respBodies,
                   cancelAt>>

\* applyBackoff, lines 161-162: the select takes the ctx.Done() case,
\* because the signal woke it or because it chose this case among the
\* ready ones
ApplyBackoffCancelled ==
    /\ pc = "backoff"
    /\ \/ sel = "entered" /\ ctxErr # NoErr
       \/ sel = "ctx"
    /\ Return([resp |-> NilResponse, err |-> ctxErr])
    /\ sel' = "none"
    /\ UNCHANGED <<fnVars, cfgVars, ctxErr, inVars, locVars, timerFired, waitDelay, histVars, cancelAt>>

\* http.NewRequestWithContext (executeOnce, line 96): a request of its own,
\* with the given body and no header set
NewRequestWithContext(b) == [body |-> b, header |-> <<>>]

\* the outcome of executeOnce is assigned to resp, lastErr (line 67); a
\* response comes with the body of the http.Response, which is open
Outcome(r, err) ==
    /\ resp' = r
    /\ lastErr' = err
    /\ outcomes' = Append(outcomes, [resp |-> r, err |-> err])
    /\ respBodies' = Append(respBodies, IF r.nil THEN "none" ELSE "open")
    /\ pc' = "decide"

\* ExecuteOnce that builds the request once and hands the same request, with
\* the headers it has collected, to every later attempt
ExecuteOnce_ReuseRequest ==
    /\ pc = "executeOnce"
    /\ attempts' = attempts + 1
    /\ mwLog' = <<>>
    /\ mwErrAt' = 0
    /\ exchanged' = FALSE
    /\ IF urlOK
       THEN /\ req' = [req EXCEPT !.body = bodyReaderFromByteSlice(bodyBytes)]
            /\ mwIdx' = 1
            /\ chainRuns' = chainRuns + 1
            /\ pc' = "middleware"
            /\ UNCHANGED <<resp, lastErr, outcomes, respBodies>>
       ELSE /\ Outcome(NilResponse, <<"failed to make http request", "invalid URL">>)
            /\ UNCHANGED <<req, mwIdx, chainRuns>>
    /\ UNCHANGED <<fnVars, cfgVars, ctxErr, inVars, body, bodyBytes, maxAttempts, attempt,
                   boVars, ret, exchanges, waits, waitsDone, seenBodies, cancelAt>>

\* executeOnce, lines 95-99: build the request of this attempt
ExecuteOnce ==
    /\ pc = "executeOnce"
    /\ attempts' = attempts + 1
    /\ mwLog' = <<>>
    /\ mwErrAt' = 0
    /\ exchanged' = FALSE
    /\ IF urlOK
       THEN /\ req' = NewRequestWithContext(bodyReaderFromByteSlice(bodyBytes))
            /\ mwIdx' = 1
            /\ chainRuns' = chainRuns + 1
            /\ pc' = "middleware"
            /\ UNCHANGED <<resp, lastErr, outcomes, respBodies>>
       ELSE /\ Outcome(NilResponse, <<"failed to make http request", "invalid URL">>)
            /\ UNCHANGED <<req, mwIdx, chainRuns>>
    /\ UNCHANGED <<fnVars, cfgVars, ctxErr, inVars, body, bodyBytes, maxAttempts, attempt,
                   boVars, ret, exchanges, waits, waitsDone, seenBodies, cancelAt>>

\* RunMiddleware that walks c.middlewares from the last to the first
RunMiddleware_Reverse(err) ==
    /\ pc = "middleware"
    /\ mwIdx <= Len(c.middlewares)
    /\ mwLog' = Append(mwLog, c.middlewares[Len(c.middlewares) - mwIdx + 1])
    /\ req' = [req EXCEPT !.header = Append(@, c.middlewares[Len(c.middlewares) - mwIdx + 1])]
    /\ IF err # NoErr
       THEN /\ Outcome(NilResponse, <<"middleware error">> \o err)
            /\ mwErrAt' = mwIdx
            /\ mwIdx' = mwIdx
       ELSE /\ mwIdx' = mwIdx + 1
            /\ UNCHANGED <<resp, lastErr, outcomes, respBodies, pc, mwErrAt>>
    /\ UNCHANGED <<fnVars, cfgVars, ctxErr, inVars, body, bodyBytes, maxAttempts, attempt,
                   boVars, ret, attempts, exchanges, waits, waitsDone, chainRuns,
                   exchanged, seenBodies, cancelAt>>

\* RunMiddleware that drops the middleware's error and goes on with the loop
RunMiddleware_Swallow(err) ==
    /\ pc = "middleware"
    /\ mwIdx <= Len(c.middlewares)
    /\ mwLog' = Append(mwLog, c.middlewares[mwIdx])
    /\ req' = [req EXCEPT !.header = Append(@, c.middlewares[mwIdx])]
    /\ mwErrAt' = IF err # NoErr THEN mwIdx ELSE mwErrAt
    /\ mwIdx' = mwIdx + 1
    /\ UNCHANGED <<resp, lastErr, outcomes, respBodies, pc>>
    /\ UNCHANGED <<fnVars, cfgVars, ctxErr, inVars, body, bodyBytes, maxAttempts, attempt,
                   boVars, ret, attempts, exchanges, waits, waitsDone, chainRuns,
                   exchanged, seenBodies, cancelAt>>

\* executeOnce, lines 100-104: one iteration of the middleware loop; the
\* middleware adds its header to the request it is given and returns err
RunMiddleware(err) ==
    /\ pc = "middleware"
    /\ mwIdx <= Len(c.middlewares)
    /\ mwLog' = Append(mwLog, c.middlewares[mwIdx])
    /\ req' = [req EXCEPT !.header = Append(@, c.middlewares[mwIdx])]
    /\ IF err # NoErr
       THEN /\ Outcome(NilResponse, <<"middleware error">> \o err)
            /\ mwErrAt' = mwIdx
            /\ mwIdx' = mwIdx
       ELSE /\ mwIdx' = mwIdx + 1
            /\ UNCHANGED <<resp, lastErr, outcomes, respBodies, pc, mwErrAt>>
    /\ UNCHANGED <<fnVars, cfgVars, ctxErr, inVars, body, bodyBytes, maxAttempts, attempt,
                   boVars, ret, attempts, exchanges, waits, waitsDone, chainRuns,
                   exchanged, seenBodies, cancelAt>>

\* executeOnce, line 105: the request is handed to httpClient.Do, which
\* reads its body
TransportDo ==
    /\ pc = "middleware"
    /\ mwIdx > Len(c.middlewares)
    /\ exchanges' = exchanges + 1
    /\ exchanged' = TRUE
    /\ seenBodies' = Append(seenBodies, ReadAll(req.body))
    /\ req' = [req EXCEPT !.body = Drained(@)]
    /\ pc' = "transport"
    /\ UNCHANGED <<fnVars, cfgVars, ctxErr, inVars, body, bodyBytes, maxAttempts, attempt, resp,
                   lastErr, mwIdx, boVars, ret, attempts, waits, waitsDone, chainRuns,
                   mwLog, mwErrAt, outcomes, respBodies, cancelAt>>

\* what httpClient.Do returns: the context's error once the signal has
\* fired (the context governs the whole exchange), else a response or a
\* network error
DoResults ==
    IF ctxErr # NoErr
    THEN {[status |-> 0, err |-> <<method, "url">> \o ctxErr]}
    ELSE {[status |-> s, err |-> NoErr] : s \in StatusCodes}
         \cup {[status |-> 0, err |-> <<method, "url", cause>>] : cause \in TransportCauses}

\* TransportReturns that wraps the transport's error without its text
TransportReturns_DropCause(r) ==
    /\ pc = "transport"
    /\ r \in DoResults
    /\ IF r.err # NoErr
       THEN Outcome(NilResponse, <<"failed to do http request">>)
       ELSE Outcome(fromHTTPResponse(r.status), NoErr)
    /\ UNCHANGED <<fnVars, cfgVars, ctxErr, inVars, body, bodyBytes, maxAttempts, attempt, req,
                   mwIdx, boVars, ret, attempts, exchanges, waits, waitsDone,
                   chainRuns, mwLog, mwErrAt, exchanged, seenBodies, cancelAt>>

\* executeOnce, lines 105-110: httpClient.Do returns
TransportReturns(r) ==
    /\ pc = "transport"
    /\ r \in DoResults
    /\ IF r.err # NoErr
       THEN Outcome(NilResponse, <<"failed to do http request">> \o r.err)
       ELSE Outcome(fromHTTPResponse(r.status), NoErr)
    /\ UNCHANGED <<fnVars, cfgVars, ctxErr, inVars, body, bodyBytes, maxAttempts, attempt, req,
                   mwIdx, boVars, ret, attempts, exchanges, waits, waitsDone,
                   chainRuns, mwLog, mwErrAt, exchanged, seenBodies, cancelAt>>

\* Decide that retries on a retryable error only
Decide_ErrorsOnly ==
    /\ pc = "decide"
    /\ IF lastErr = NoErr /\ ~shouldRetry(c.retryConfig, resp)
       THEN /\ Return(SuccessResult(resp, attempt))
            /\ attempt' = attempt
       ELSE IF /\ attempt < maxAttempts - 1
               /\ shouldRetryError(c.retryConfig, lastErr)
       THEN /\ attempt' = attempt + 1
            /\ pc' = "loop"
            /\ ret' = ret
       ELSE /\ Return(FinalResult(resp, lastErr, maxAttempts))
            /\ attempt' = attempt
    /\ UNCHANGED <<fnVars, cfgVars, ctxErr, inVars, body, bodyBytes, maxAttempts, resp, lastErr,
                   req, mwIdx, boVars, histVars, cancelAt>>

\* execute, lines 68-91: the retry decision on the attempt's outcome
Decide ==
    /\ pc = "decide"
    /\ IF lastErr = NoErr /\ ~shouldRetry(c.retryConfig, resp)
       THEN /\ Return(SuccessResult(resp, attempt))
            /\ attempt' = attempt
       ELSE IF /\ attempt < maxAttempts - 1
               /\ (shouldRetryError(c.retryConfig, lastErr) \/ shouldRetry(c.retryConfig, resp))
       THEN /\ attempt' = attempt + 1
            /\ pc' = "loop"
            /\ ret' = ret
       ELSE /\ Return(FinalResult(resp, lastErr, maxAttempts))
            /\ attempt' = attempt
    /\ UNCHANGED <<fnVars, cfgVars, ctxErr, inVars, body, bodyBytes, maxAttempts, resp, lastErr,
                   req, mwIdx, boVars, histVars, cancelAt>>

(***************************************************************************)
(* The caller's context: cancel() is called or the deadline passes.        *)
(***************************************************************************)
Cancel(err) ==
    /\ pc \notin {"builder", "done"}
    /\ ctxErr = NoErr
    /\ ctxErr' = err
    /\ sel' = IF sel = "parked" THEN "ctx" ELSE sel
    /\ cancelAt' = [pc |-> pc, attempts |-> attempts, exchanges |-> exchanges,
                    waitsDone |-> waitsDone, timerFired |-> timerFired]
    /\ UNCHANGED <<fnVars, cfgVars, pc, inVars, locVars, timerFired, waitDelay, ret, histVars>>

Next ==
    \/ \E m \in Middlewares : WithMiddleware(m)
    \/ \E config \in RetryConfigs : WithRetryConfig(config)
    \/ WithRetries
    \/ \E maxRetries \in (0 - 1)..MaxRetriesArg : WithMaxRetries(maxRetries)
    \/ Build
    \/ \E ok \in BOOLEAN : Get(ok)
    \/ \E content \in Bodies, ok \in BOOLEAN : Post(content, ok)
    \/ LoopHead
    \/ TimerFires
    \/ ApplyBackoffPark
    \/ ApplyBackoffElapsed
    \/ ApplyBackoffCancelled
    \/ ExecuteOnce
    \/ \E err \in {NoErr} \cup MiddlewareErrors : RunMiddleware(err)
    \/ TransportDo
    \/ \E r \in DoResults : TransportReturns(r)
    \/ Decide
    \/ \E err \in {Canceled, DeadlineExceeded} : Cancel(err)

Spec == Init /\ [][Next]_vars

\* the steps of a call in progress: the goroutine running execute is
\* scheduled, the runtime timer of a backoff fires and the transport answers
\* an exchange
CallProgress ==
    \/ LoopHead
    \/ TimerFires
    \/ ApplyBackoffPark
    \/ ApplyBackoffElapsed
    \/ ApplyBackoffCancelled
    \/ ExecuteOnce
    \/ \E err \in {NoErr} \cup MiddlewareErrors : RunMiddleware(err)
    \/ TransportDo
    \/ \E r \in DoResults : TransportReturns(r)
    \/ Decide

\* the program with a caller that keeps the retry-config builder and calls
\* its WithBackoffStrategy after Build, or hands a zero-value RetryConfig to
\* WithRetryConfig
NilStrategyNext ==
    \/ \E m \in Middlewares : WithMiddleware(m)
    \/ WithRetryConfig(ZeroRetryConfig)
    \/ WithRetries
    \/ \E s \in {"nil", "exponential", "fixed"} : WithBackoffStrategyAfterBuild(s)
    \/ Build
    \/ \E ok \in BOOLEAN : Get(ok)
    \/ CallProgress
    \/ \E err \in {Canceled, DeadlineExceeded} : Cancel(err)

NilStrategySpec == Init /\ [][NilStrategyNext]_vars

\* the same program under a scheduler that runs the call whenever it has a
\* step to take; the builder calls, the start of a call and the cancellation
\* are the caller's choice and may never happen
LiveSpec == Init /\ [][NilStrategyNext]_vars /\ WF_vars(CallProgress)

(***************************************************************************)
(* NewClientBuilder().WithRetries().Build() calls a server that answers    *)
(* every request with a status of ServerCodes; the caller's context is     *)
(* never cancelled. WithRetries keeps the retry-config builder to itself,  *)
(* so nothing is called on it afterwards.                                  *)
(***************************************************************************)
ServerCodes == {400, 404, 429, 500, 502, 503, 504}

\* executeOnce, lines 105-110: httpClient.Do returns the server's answer
ServerAnswers(status) ==
    /\ pc = "transport"
    /\ Outcome(fromHTTPResponse(status), NoErr)
    /\ UNCHANGED <<fnVars, cfgVars, ctxErr, inVars, body, bodyBytes, maxAttempts, attempt, req,
                   mwIdx, boVars, ret, attempts, exchanges, waits, waitsDone,
                   chainRuns, mwLog, mwErrAt, exchanged, seenBodies, cancelAt>>

DefaultRetriesNext ==
    \/ WithRetries
    \/ Build
    \/ Get(TRUE)
    \/ \E content \in Bodies : Post(content, TRUE)
    \/ LoopHead
    \/ TimerFires
    \/ ApplyBackoffPark
    \/ ApplyBackoffElapsed
    \/ ExecuteOnce
    \/ TransportDo
    \/ \E status \in ServerCodes : ServerAnswers(status)
    \/ Decide

DefaultRetriesSpec == Init /\ [][DefaultRetriesNext]_vars

(***************************************************************************)
(* client.go: the retry predicates, called on a client with any            *)
(* configuration, any response and any error.                              *)
(***************************************************************************)
\* the configurations of the client: those of RetryConfigs and two built
\* with a signature in upper case and the same signature in lower case
PredicateConfigs ==
    RetryConfigs \cup
    {RetryConfigBuild([ZeroRetryConfig EXCEPT !.retryableError = e,
                                              !.retryableStatusCodes = {429, 404}]) :
        e \in {{"EOF"}, {"eof", "timeout"}}}

PredicateResponses ==
    {NilResponse} \cup {fromHTTPResponse(s) : s \in StatusCodes \cup {429}}

PredicateErrors ==
    {NoErr, Canceled, <<"auth TIMEOUT">>, <<"auth timeout">>, <<"EOF">>,
     <<"middleware error", "middleware failed">>,
     <<"failed to do http request", "Get", "url", "connection refused">>}

PredicatesInit ==
    /\ cb = [middlewares |-> <<>>, retryConfig |-> NilConfig]
    /\ c \in {[middlewares |-> <<>>, retryConfig |-> cfg] : cfg \in PredicateConfigs}
    /\ pc = "predicates"
    /\ CallIdle
    /\ argResp \in PredicateResponses
    /\ argErr \in PredicateErrors
    /\ predRet = NoPredicate
    /\ StrategyIdle
    /\ RetryConfigIdle
    /\ ConcurrentIdle
    /\ URLIdle
    /\ ClientBuilderIdle

\* c.shouldRetry(argResp)
ShouldRetry ==
    /\ pc = "predicates"
    /\ predRet' = [fn |-> "shouldRetry", value |-> shouldRetry(c.retryConfig, argResp)]
    /\ UNCHANGED <<cfgVars, pc, ctxErr, inVars, locVars, boVars, ret, histVars, cancelAt,
                   argResp, argErr, strategy, goarch, delayRet, rcVars, calls,
                   urlVars, bldVars>>

\* c.shouldRetryError(argErr)
ShouldRetryError ==
    /\ pc = "predicates"
    /\ predRet' = [fn |-> "shouldRetryError",
                   value |-> shouldRetryError(c.retryConfig, argErr)]
    /\ UNCHANGED <<cfgVars, pc, ctxErr, inVars, locVars, boVars, ret, histVars, cancelAt,
                   argResp, argErr, strategy, goarch, delayRet, rcVars, calls,
                   urlVars, bldVars>>

PredicatesNext ==
    \/ ShouldRetry
    \/ ShouldRetryError

PredicatesSpec == PredicatesInit /\ [][PredicatesNext]_vars

(***************************************************************************)
(* retry.go: a backoff strategy is configured through its builder, built,  *)
(* and its Delay is called.                                                *)
(***************************************************************************)
BackoffInit ==
    /\ cb = [middlewares |-> <<>>, retryConfig |-> NilConfig]
    /\ c = [middlewares |-> <<>>, retryConfig |-> NilConfig]
    /\ pc = "strategy"
    /\ CallIdle
    /\ PredicatesIdle
    /\ strategy \in {NewExponentialBackoffBuilder, NewFixedBackoffBuilder}
    /\ goarch \in {"amd64", "arm64"}
    /\ delayRet = NoDelay
    /\ RetryConfigIdle
    /\ ConcurrentIdle
    /\ URLIdle
    /\ ClientBuilderIdle

\* a With* method of a backoff builder sets field to value
With(kind, field, value) ==
    /\ pc = "strategy"
    /\ strategy.kind = kind
    /\ ~strategy.built
    /\ strategy' = [strategy EXCEPT ![field] = value]
    /\ UNCHANGED <<cfgVars, pc, ctxErr, inVars, locVars, boVars, ret, histVars, cancelAt,
                   argResp, argErr, predRet, goarch, delayRet, rcVars, calls,
                   urlVars, bldVars>>

WithBaseDelay(delay) == With("exponential", "baseDelay", delay)

WithMultiplier(multiplier) == With("exponential", "multiplier", multiplier)

WithMaxDelay(delay) == With("exponential", "maxDelay", delay)

WithDelay(delay) == With("fixed", "delay", delay)

WithJitter(jitter) ==
    \/ With("exponential", "jitter", jitter)
    \/ With("fixed", "jitter", jitter)

\* Build of either backoff builder
BackoffBuild ==
    /\ pc = "strategy"
    /\ ~strategy.built
    /\ strategy' = IF strategy.kind = "fixed" THEN FixedBackoffBuild(strategy)
                   ELSE ExponentialBackoffBuild(strategy)
    /\ UNCHANGED <<cfgVars, pc, ctxErr, inVars, locVars, boVars, ret, histVars, cancelAt,
                   argResp, argErr, predRet, goarch, delayRet, rcVars, calls,
                   urlVars, bldVars>>

\* CallDelay that draws rand.Float64() once and keeps the draw for the
\* later calls
CallDelay_Cached(count, rnd) ==
    /\ pc = "strategy"
    /\ strategy.built
    /\ delayRet' =
          LET draw == IF delayRet.called THEN delayRet.rnd ELSE rnd
          IN  [called |-> TRUE, count |-> count, rnd |-> draw,
               value |-> Delay(strategy, count, goarch, draw)]
    /\ UNCHANGED <<cfgVars, pc, ctxErr, inVars, locVars, boVars, ret, histVars, cancelAt,
                   argResp, argErr, predRet, strategy, goarch, rcVars, calls,
                   urlVars, bldVars>>

\* strategy.Delay(count), in which rand.Float64() returns rnd/JitterDraws
CallDelay(count, rnd) ==
    /\ pc = "strategy"
    /\ strategy.built
    /\ delayRet' = [called |-> TRUE, count |-> count, rnd |-> rnd,
                    value |-> Delay(strategy, count, goarch, rnd)]
    /\ UNCHANGED <<cfgVars, pc, ctxErr, inVars, locVars, boVars, ret, histVars, cancelAt,
                   argResp, argErr, predRet, strategy, goarch, rcVars, calls,
                   urlVars, bldVars>>

BackoffNext ==
    \/ \E delay \in BaseDelays : WithBaseDelay(delay)
    \/ \E multiplier \in Multipliers : WithMultiplier(multiplier)
    \/ \E delay \in MaxDelays : WithMaxDelay(delay)
    \/ \E delay \in FixedDelays : WithDelay(delay)
    \/ \E jitter \in BOOLEAN : WithJitter(jitter)
    \/ BackoffBuild
    \/ \E count \in (0 - 1)..MaxCount, rnd \in 0..(JitterDraws - 1) : CallDelay(count, rnd)

BackoffSpec == BackoffInit /\ [][BackoffNext]_vars

(***************************************************************************)
(* retry.go: a retry configuration is set up through its builder and       *)
(* built. Build returns the builder's own *RetryConfig (line 97), so rb is *)
(* from then on also the configuration the caller of Build holds, and the  *)
(* With* methods and Build stay callable on the builder.                   *)
(***************************************************************************)
\* the strategies handed to WithBackoffStrategy: nil, and the strategies the
\* two backoff builders build by default
BackoffStrategies == {"nil", "exponential", "fixed"}

\* the slices handed to WithRetryableStatusCodes
StatusCodeArgs == {{}, {404}, {500, 503}}

\* the maps handed to WithRetryableErrors
RetryableErrorArgs == {{}, {"timeout"}, {"context canceled", "middleware error"}}

RetryConfigInit ==
    /\ cb = [middlewares |-> <<>>, retryConfig |-> NilConfig]
    /\ c = [middlewares |-> <<>>, retryConfig |-> NilConfig]
    /\ pc = "retryConfig"
    /\ CallIdle
    /\ PredicatesIdle
    /\ StrategyIdle
    /\ RetryConfigIdle
    /\ ConcurrentIdle
    /\ URLIdle
    /\ ClientBuilderIdle

\* a With* method of the retry-config builder sets field to value
RetryConfigWith(field, value) ==
    /\ pc = "retryConfig"
    /\ rb' = [rb EXCEPT ![field] = value]
    /\ UNCHANGED <<cfgVars, pc, ctxErr, inVars, locVars, boVars, ret, histVars, cancelAt,
                   argResp, argErr, predRet, strategy, goarch, delayRet, buildRet, calls,
                   urlVars, bldVars>>

\* retryConfigBuilder.WithMaxRetries
BuilderWithMaxRetries(maxRetries) == RetryConfigWith("maxRetries", maxRetries)

WithBackoffStrategy(s) == RetryConfigWith("backoffStrategy", s)

WithRetryableStatusCodes(codes) == RetryConfigWith("retryableStatusCodes", codes)

WithRetryableErrors(errors) == RetryConfigWith("retryableError", errors)

\* retryConfigBuilder.Build: the fields of r.config are normalised in place
\* and the pointer is returned
RetryConfigBuilderBuild ==
    /\ pc = "retryConfig"
    /\ rb' = RetryConfigBuild(rb)
    /\ buildRet' = [called |-> TRUE, arg |-> rb, value |-> RetryConfigBuild(rb)]
    /\ UNCHANGED <<cfgVars, pc, ctxErr, inVars, locVars, boVars, ret, histVars, cancelAt,
                   argResp, argErr, predRet, strategy, goarch, delayRet, calls,
                   urlVars, bldVars>>

RetryConfigNext ==
    \/ \E maxRetries \in (0 - 1)..MaxRetriesArg : BuilderWithMaxRetries(maxRetries)
    \/ \E s \in BackoffStrategies : WithBackoffStrategy(s)
    \/ \E codes \in StatusCodeArgs : WithRetryableStatusCodes(codes)
    \/ \E errors \in RetryableErrorArgs : WithRetryableErrors(errors)
    \/ RetryConfigBuilderBuild

RetryConfigSpec == RetryConfigInit /\ [][RetryConfigNext]_vars

(***************************************************************************)
(* client.go: the goroutines of Calls call Get or Post on one built client *)
(* at the same time. Each runs execute with its own context, arguments and *)
(* locals; the steps of the goroutines interleave. executeOnce is one step *)
(* of its goroutine: it reads the client's fields and writes none.         *)
(***************************************************************************)
\* the clients the calls share: built without and with a retry
\* configuration, without and with a middleware
ConcurrentClients ==
    {[middlewares |-> m, retryConfig |-> cfg] :
        m \in {<<>>, <<"m1">>},
        cfg \in {NilConfig,
                 RetryConfigBuild([ZeroRetryConfig EXCEPT !.maxRetries = MaxRetriesArg,
                                                          !.retryableStatusCodes = {503}])}}

ConcurrentInit ==
    /\ c \in ConcurrentClients
    /\ cb = c
    /\ pc = "concurrent"
    /\ CallIdle
    /\ PredicatesIdle
    /\ StrategyIdle
    /\ RetryConfigIdle
    /\ calls = [k \in Calls |-> IdleCall]
    /\ URLIdle
    /\ ClientBuilderIdle

\* a step of goroutine k, which leaves it with the locals g
CallStep(k, g) ==
    /\ pc = "concurrent"
    /\ calls' = [calls EXCEPT ![k] = g]
    /\ UNCHANGED <<cfgVars, pc, ctxErr, inVars, locVars, boVars, ret, histVars, cancelAt,
                   argResp, argErr, predRet, strategy, goarch, delayRet, rcVars,
                   urlVars, bldVars>>

\* execute, lines 42-58, entered by goroutine k with the reader b
CallExecute(k, m, content, b) ==
    /\ calls[k].pc = "idle"
    /\ CallStep(k, [calls[k] EXCEPT !.method = m,
                                     !.argBody = content,
                                     !.bodyBytes = ReadAll(b),
                                     !.maxAttempts = MaxAttempts(c.retryConfig),
                                     !.pc = "loop"])

CallGet(k) == CallExecute(k, "Get", <<>>, NilReader)

CallPost(k, content) == CallExecute(k, "Post", content, NewBuffer(content))

\* execute returns result in the goroutine with the locals g
CallReturn(g, result) == [g EXCEPT !.ret = result, !.pc = "done"]

\* execute, lines 60-66: the loop condition, the cancellation check and the
\* test of applyBackoff
CallLoopHead(k) ==
    LET g == calls[k]
    IN  /\ g.pc = "loop"
        /\ CallStep(k,
              IF ~(g.attempt < g.maxAttempts)
              THEN CallReturn(g, FinalResult(g.resp, g.lastErr, g.maxAttempts))
              ELSE IF contextCancelled(g.ctxErr) # NoErr
              THEN CallReturn(g, [resp |-> NilResponse, err |-> contextCancelled(g.ctxErr)])
              ELSE IF g.attempt > 0 /\ ~c.retryConfig.nil
              THEN [g EXCEPT !.pc = "backoff"]
              ELSE [g EXCEPT !.pc = "executeOnce"])

\* applyBackoff, lines 159-163: the select of goroutine k takes the timer
\* case, or the ctx.Done() case once the goroutine's own signal has fired
CallApplyBackoff(k, case) ==
    LET g == calls[k]
    IN  /\ g.pc = "backoff"
        /\ case = "ctx" => g.ctxErr # NoErr
        /\ CallStep(k,
              IF case = "ctx"
              THEN CallReturn(g, [resp |-> NilResponse, err |-> g.ctxErr])
              ELSE [g EXCEPT !.pc = "executeOnce"])

\* what executeOnce can return in the goroutine with the locals g, and
\* whether the request reached httpClient.Do: the error of a middleware, the
\* goroutine's own context error once its signal has fired, else a response
\* or a network error
CallResults(g) ==
    (IF Len(c.middlewares) > 0
     THEN {[exchanged |-> FALSE, resp |-> NilResponse,
            err |-> <<"middleware error", "middleware failed">>]}
     ELSE {})
    \cup
    (IF g.ctxErr # NoErr
     THEN {[exchanged |-> TRUE, resp |-> NilResponse,
            err |-> <<"failed to do http request", g.method, "url">> \o g.ctxErr]}
     ELSE {[exchanged |-> TRUE, resp |-> fromHTTPResponse(s), err |-> NoErr] :
              s \in {200, 503}}
          \cup {[exchanged |-> TRUE, resp |-> NilResponse,
                 err |-> <<"failed to do http request", g.method, "url",
                           "connection refused">>]})

\* CallExecuteOnce that sends the body cached by the goroutine that entered
\* execute last (a cache kept in the client instead of a local)
CallExecuteOnce_SharedBody(k, r) ==
    LET g == calls[k]
        last == IF calls[3 - k].pc # "idle" THEN calls[3 - k] ELSE g
    IN  /\ g.pc = "executeOnce"
        /\ r \in CallResults(g)
        /\ CallStep(k, [g EXCEPT
              !.resp = r.resp,
              !.lastErr = r.err,
              !.outcomes = Append(@, [resp |-> r.resp, err |-> r.err]),
              !.seenBodies =
                  IF r.exchanged
                  THEN Append(@, ReadAll(bodyReaderFromByteSlice(last.bodyBytes)))
                  ELSE @,
              !.pc = "decide"])

\* execute, line 67: executeOnce, called by goroutine k with a reader over
\* its own bodyBytes, returns r; when the request reached the transport,
\* the transport read the request body
CallExecuteOnce(k, r) ==
    LET g == calls[k]
    IN  /\ g.pc = "executeOnce"
        /\ r \in CallResults(g)
        /\ CallStep(k, [g EXCEPT
              !.resp = r.resp,
              !.lastErr = r.err,
              !.outcomes = Append(@, [resp |-> r.resp, err |-> r.err]),
              !.seenBodies =
                  IF r.exchanged
                  THEN Append(@, ReadAll(bodyReaderFromByteSlice(g.bodyBytes)))
                  ELSE @,
              !.pc = "decide"])

\* execute, lines 68-91: the retry decision of goroutine k
CallDecide(k) ==
    LET g == calls[k]
    IN  /\ g.pc = "decide"
        /\ CallStep(k,
              IF g.lastErr = NoErr /\ ~shouldRetry(c.retryConfig, g.resp)
              THEN CallReturn(g, SuccessResult(g.resp, g.attempt))
              ELSE IF /\ g.attempt < g.maxAttempts - 1
                      /\ \/ shouldRetryError(c.retryConfig, g.lastErr)
                         \/ shouldRetry(c.retryConfig, g.resp)
              THEN [g EXCEPT !.attempt = @ + 1, !.pc = "loop"]
              ELSE CallReturn(g, FinalResult(g.resp, g.lastErr, g.maxAttempts)))

\* the context of goroutine k is cancelled
CallCancel(k, err) ==
    /\ calls[k].pc \notin {"idle", "done"}
    /\ calls[k].ctxErr = NoErr
    /\ CallStep(k, [calls[k] EXCEPT !.ctxErr = err])

ConcurrentNext ==
    \E k \in Calls :
        \/ CallGet(k)
        \/ \E content \in Bodies : CallPost(k, content)
        \/ CallLoopHead(k)
        \/ \E case \in {"timer", "ctx"} : CallApplyBackoff(k, case)
        \/ \E r \in CallResults(calls[k]) : CallExecuteOnce(k, r)
        \/ CallDecide(k)
        \/ CallCancel(k, Canceled)

ConcurrentSpec == ConcurrentInit /\ [][ConcurrentNext]_vars

(***************************************************************************)
(* builder.go, client.go: a client is built with or without a base URL and *)
(* its buildURL is called.                                                 *)
(***************************************************************************)
\* what WithBaseURL is called with
BaseURLArgs ==
    {<<>>, <<"/">>, <<"https:", "/", "/", "a">>, <<"https:", "/", "/", "a", "/">>,
     <<"http:", "/", "/", "a", "/", "/">>, <<"a", "/", "a">>}

URLInit ==
    /\ cb = [middlewares |-> <<>>, retryConfig |-> NilConfig]
    /\ c = [middlewares |-> <<>>, retryConfig |-> NilConfig]
    /\ pc = "urlBuilder"
    /\ CallIdle
    /\ PredicatesIdle
    /\ StrategyIdle
    /\ RetryConfigIdle
    /\ ConcurrentIdle
    /\ URLIdle
    /\ ClientBuilderIdle

\* ClientBuilder.WithBaseURL
WithBaseURL(url) ==
    /\ pc = "urlBuilder"
    /\ cbBaseURL' = TrimRight(url)
    /\ UNCHANGED <<cfgVars, pc, ctxErr, inVars, locVars, boVars, ret, histVars, cancelAt,
                   argResp, argErr, predRet, strategy, goarch, delayRet, rcVars, calls,
                   baseURL, urlRet, bldVars>>

\* ClientBuilder.Build: the client takes the builder's base URL, middlewares
\* and retry configuration
URLBuild ==
    /\ pc = "urlBuilder"
    /\ c' = [middlewares |-> [i \in 1..Len(cb.middlewares) |-> cb.middlewares[i]],
             retryConfig |-> cb.retryConfig]
    /\ baseURL' = IF cbBaseURL # <<>> THEN cbBaseURL ELSE <<>>
    /\ pc' = "urlClient"
    /\ UNCHANGED <<cb, ctxErr, inVars, locVars, boVars, ret, histVars, cancelAt,
                   argResp, argErr, predRet, strategy, goarch, delayRet, rcVars, calls,
                   cbBaseURL, urlRet, bldVars>>

\* c.buildURL(url), called once
CallBuildURL(url) ==
    /\ pc = "urlClient"
    /\ ~urlRet.called
    /\ urlRet' = [called |-> TRUE, url |-> url, value |-> buildURL(baseURL, url)]
    /\ UNCHANGED <<cfgVars, pc, ctxErr, inVars, locVars, boVars, ret, histVars, cancelAt,
                   argResp, argErr, predRet, strategy, goarch, delayRet, rcVars, calls,
                   cbBaseURL, baseURL, bldVars>>

URLNext ==
    \/ \E url \in BaseURLArgs : WithBaseURL(url)
    \/ URLBuild
    \/ \E url \in URLs : CallBuildURL(url)

URLSpec == URLInit /\ [][URLNext]_vars


(***************************************************************************)
(* builder.go: one ClientBuilder is configured and built several times.    *)
(* Build allocates a client and copies the builder's fields into it; the   *)
(* middlewares are copied element by element into a slice of the client's  *)
(* own, so a slice is modelled by its value.  A client is known by its     *)
(* address in heap.                                                        *)
(***************************************************************************)
\* what WithBaseURL is called with between two builds
RebaseArgs == {<<"https:", "/", "/", "a", "/">>, <<"a", "/", "a">>}

\* the fields of the ClientBuilder
BuilderFields ==
    [baseURL |-> cbBaseURL, middlewares |-> cb.middlewares, retryConfig |-> cb.retryConfig]

ClientBuilderInit ==
    /\ cb = [middlewares |-> <<>>, retryConfig |-> NilConfig]
    /\ c = [middlewares |-> <<>>, retryConfig |-> NilConfig]
    /\ pc = "clientBuilder"
    /\ CallIdle
    /\ PredicatesIdle
    /\ StrategyIdle
    /\ RetryConfigIdle
    /\ ConcurrentIdle
    /\ URLIdle
    /\ ClientBuilderIdle

\* ClientBuilder.WithBaseURL, before or after a Build
BuilderWithBaseURL(url) ==
    /\ pc = "clientBuilder"
    /\ cbBaseURL' = TrimRight(url)
    /\ UNCHANGED <<cfgVars, pc, ctxErr, inVars, locVars, boVars, ret, histVars, cancelAt,
                   argResp, argErr, predRet, strategy, goarch, delayRet, rcVars, calls,
                   baseURL, urlRet, bldVars>>

\* ClientBuilder.WithMiddleware, before or after a Build
BuilderWithMiddleware(m) ==
    /\ pc = "clientBuilder"
    /\ Len(cb.middlewares) < MaxMiddlewares
    /\ cb' = [cb EXCEPT !.middlewares = Append(@, m)]
    /\ UNCHANGED <<c, pc, ctxErr, inVars, locVars, boVars, ret, histVars, cancelAt,
                   argResp, argErr, predRet, strategy, goarch, delayRet, rcVars, calls,
                   urlVars, bldVars>>

\* ClientBuilder.WithRetries, before or after a Build
BuilderWithRetries ==
    /\ pc = "clientBuilder"
    /\ cb.retryConfig.nil
    /\ cb' = [cb EXCEPT !.retryConfig = RetryConfigBuild(ZeroRetryConfig)]
    /\ UNCHANGED <<c, pc, ctxErr, inVars, locVars, boVars, ret, histVars, cancelAt,
                   argResp, argErr, predRet, strategy, goarch, delayRet, rcVars, calls,
                   urlVars, bldVars>>

\* a Build that allocates one client on its first call and, on every later
\* call, writes the builder's fields into that client and returns it again
ClientBuild_Reuse ==
    /\ pc = "clientBuilder"
    /\ Len(builds) < MaxBuilds
    /\ LET cl == [baseURL |-> IF cbBaseURL # <<>> THEN cbBaseURL ELSE <<>>,
                  middlewares |-> [i \in 1..Len(cb.middlewares) |-> cb.middlewares[i]],
                  retryConfig |-> cb.retryConfig]
       IN /\ heap' = IF heap = <<>> THEN <<cl>> ELSE [heap EXCEPT ![1] = cl]
          /\ builds' = Append(builds, [ptr |-> 1, client |-> cl, builder |-> BuilderFields])
    /\ UNCHANGED <<cfgVars, pc, ctxErr, inVars, locVars, boVars, ret, histVars, cancelAt,
                   argResp, argErr, predRet, strategy, goarch, delayRet, rcVars, calls,
                   urlVars>>

\* ClientBuilder.Build: &client{...} is a client at an address of its own; its
\* middlewares are a copy of the builder's, its retryConfig is the builder's
\* pointer and its baseURL is the builder's when that is not empty
ClientBuild ==
    /\ pc = "clientBuilder"
    /\ Len(builds) < MaxBuilds
    /\ LET cl == [baseURL |-> IF cbBaseURL # <<>> THEN cbBaseURL ELSE <<>>,
                  middlewares |-> [i \in 1..Len(cb.middlewares) |-> cb.middlewares[i]],
                  retryConfig |-> cb.retryConfig]
       IN /\ heap' = Append(heap, cl)
          /\ builds' = Append(builds, [ptr |-> Len(heap) + 1, client |-> cl,
                                       builder |-> BuilderFields])
    /\ UNCHANGED <<cfgVars, pc, ctxErr, inVars, locVars, boVars, ret, histVars, cancelAt,
                   argResp, argErr, predRet, strategy, goarch, delayRet, rcVars, calls,
                   urlVars>>

ClientBuilderNext ==
    \/ \E url \in RebaseArgs : BuilderWithBaseURL(url)
    \/ \E m \in Middlewares : BuilderWithMiddleware(m)
    \/ BuilderWithRetries
    \/ ClientBuild

ClientBuilderSpec == ClientBuilderInit /\ [][ClientBuilderNext]_vars


(***************************************************************************)
(* Properties                                                              *)
(***************************************************************************)
\* the status s is in the retryable set of the client's configuration
InRetryableSet(s) ==
    ~c.retryConfig.nil /\ s \in c.retryConfig.retryableStatusCodes

\* the attempt outcome o is a completed exchange with a retryable status
RetryableStatus(o) ==
    ~o.resp.nil /\ o.err = NoErr /\ InRetryableSet(o.resp.statusCode)

\* the attempt outcome o is a completed exchange with a status that is not
\* retryable
TerminalStatus(o) ==
    ~o.resp.nil /\ o.err = NoErr /\ ~InRetryableSet(o.resp.statusCode)

Returned(status, retries) ==
    [resp |-> [nil |-> FALSE, statusCode |-> status, retryAttempts |-> retries],
     err |-> NoErr]

\* C1: with retries configured and no cancellation, when the first k
\* attempts (k <= maxRetries) were answered with a retryable status and
\* attempt k+1 with a status that is not retryable, the call makes exactly
\* k+1 attempts and returns that status with a nil error and
\* retryAttempts = k.
C1_RetryThenTerminal ==
    \A k \in 0..(Len(outcomes) - 1) :
        (/\ ~c.retryConfig.nil
         /\ ctxErr = NoErr
         /\ k <= c.retryConfig.maxRetries
         /\ \A i \in 1..k : RetryableStatus(outcomes[i])
         /\ TerminalStatus(outcomes[k + 1]))
        => /\ Len(outcomes) = k + 1
           /\ attempts = k + 1
           /\ exchanges = k + 1
           /\ pc \in {"decide", "done"}
           /\ pc = "done" => ret = Returned(outcomes[k + 1].resp.statusCode, k)

C1_Witness ==
    /\ pc = "done"
    /\ ~c.retryConfig.nil
    /\ ctxErr = NoErr
    /\ Len(outcomes) = 3
    /\ RetryableStatus(outcomes[1])
    /\ RetryableStatus(outcomes[2])
    /\ TerminalStatus(outcomes[3])
    /\ ret.resp.retryAttempts = 2

\* C2: with retries configured (N = maxRetries + 1 >= 1 allowed attempts)
\* and no cancellation, a call whose every attempt ended in a retryable
\* status has made exactly N attempts when it returns, and it returns the
\* last status with a nil error and retryAttempts = N - 1.
C2_RetryExhaustion ==
    (/\ pc = "done"
     /\ ~c.retryConfig.nil
     /\ c.retryConfig.maxRetries >= 0
     /\ ctxErr = NoErr
     /\ \A i \in 1..Len(outcomes) : RetryableStatus(outcomes[i]))
    => /\ attempts = c.retryConfig.maxRetries + 1
       /\ exchanges = c.retryConfig.maxRetries + 1
       /\ Len(outcomes) = attempts
       /\ ret = Returned(outcomes[attempts].resp.statusCode, c.retryConfig.maxRetries)

C2_Witness ==
    /\ pc = "done"
    /\ ~c.retryConfig.nil
    /\ ctxErr = NoErr
    /\ c.retryConfig.maxRetries = 3
    /\ attempts = 4
    /\ \A i \in 1..Len(outcomes) : RetryableStatus(outcomes[i])
    /\ ret.resp.retryAttempts = 3

\* C3: for every retry configuration (none included), once the first
\* exchange has completed with a status that is not retryable, the call
\* makes no second attempt and returns that status with a nil error and
\* retryAttempts = 0.
C3_TerminalFirstStatus ==
    (Len(outcomes) >= 1 /\ TerminalStatus(outcomes[1]))
    => /\ attempts = 1
       /\ exchanges = 1
       /\ waits = 0
       /\ pc \in {"decide", "done"}
       /\ pc = "done" => ret = Returned(outcomes[1].resp.statusCode, 0)

C3_Witness ==
    /\ pc = "done"
    /\ ~c.retryConfig.nil
    /\ c.retryConfig.maxRetries >= 2
    /\ Len(outcomes) = 1
    /\ TerminalStatus(outcomes[1])
    /\ outcomes[1].resp.statusCode = 503

\* the signal had fired before the first iteration of the attempt loop
CancelledBeforeFirstAttempt ==
    cancelAt.pc \in {"idle", "loop"} /\ cancelAt.attempts = 0

\* C4: a client built by a builder that was given no retry configuration
\* makes at most one attempt per call and never waits for a backoff; when
\* the call returns it has made exactly one attempt, whatever that
\* attempt's status or error was (none only when the signal had fired
\* before the first attempt).
C4_NoRetryConfig ==
    (cb.retryConfig.nil /\ pc # "builder")
    => /\ attempts <= 1
       /\ waits = 0
       /\ pc = "done" =>
            \/ attempts = 1 /\ Len(outcomes) = 1
            \/ attempts = 0 /\ CancelledBeforeFirstAttempt

C4_Witness ==
    /\ pc = "done"
    /\ cb.retryConfig.nil
    /\ attempts = 1
    /\ \/ ~outcomes[1].resp.nil /\ outcomes[1].resp.statusCode = 503
       \/ Contains(outcomes[1].err, "connection refused")

\* execute returned the context's error and no response
ReturnedCancellation ==
    ret = [resp |-> NilResponse, err |-> ctxErr]

\* C5: when the signal fires while the call is in a backoff wait (the
\* timer is started and has not fired), the wait is not completed and no
\* further attempt is started, and the call returns the cancellation error,
\* in every order in which the timer and the select of applyBackoff may
\* follow the signal.
C5_CancelDuringBackoff ==
    (cancelAt.pc = "backoff" /\ ~cancelAt.timerFired)
    => /\ waitsDone = cancelAt.waitsDone
       /\ attempts = cancelAt.attempts
       /\ pc = "done" => ReturnedCancellation

\* C6: an iteration of the attempt loop that begins with the signal already
\* fired returns the cancellation error with a nil response, and begins no
\* backoff wait, no middleware run and no transport exchange.
C6_CancelledAtIteration ==
    [][(pc = "loop" /\ attempt < maxAttempts /\ ctxErr # NoErr)
       => /\ pc' = "done"
          /\ ret' = [resp |-> NilResponse, err |-> ctxErr]
          /\ UNCHANGED <<attempts, exchanges, waits, waitsDone, chainRuns, mwLog>>]_vars

C6_Witness ==
    /\ pc = "done"
    /\ ctxErr # NoErr
    /\ cancelAt.pc \in {"decide", "loop"}
    /\ attempt >= 1
    /\ attempts = attempt
    /\ waits = attempt - 1
    /\ ReturnedCancellation

\* the error text carries the context's error
CarriesCancellation(err) ==
    ctxErr # NoErr /\ Contains(err, ctxErr[1])

C8_BodyReplayed ==
    \A i \in 1..Len(seenBodies) : seenBodies[i] = argBody

C8_Witness ==
    /\ method = "Post"
    /\ Len(argBody) >= 1
    /\ Len(seenBodies) >= 3
    /\ seenBodies[3] = argBody

\* C9: in every attempt whose request is built the middleware loop runs
\* once, the middlewares invoked so far in the attempt are a prefix of the
\* builder's registration order, and all of them have been invoked when the
\* request reaches the transport.
C9_MiddlewareOrder ==
    pc \notin {"builder", "idle"}
    => /\ chainRuns = (IF urlOK THEN attempts ELSE 0)
       /\ exchanges <= chainRuns
       /\ Len(mwLog) <= Len(cb.middlewares)
       /\ mwLog = SubSeq(cb.middlewares, 1, Len(mwLog))
       /\ exchanged => mwLog = cb.middlewares

C9_Witness ==
    /\ pc = "transport"
    /\ attempt >= 1
    /\ chainRuns = attempt + 1
    /\ cb.middlewares = <<"m1", "m2">>
    /\ mwLog = <<"m1", "m2">>

\* C10: when a middleware returns an error in an attempt, no later
\* middleware is invoked and the transport is not reached in that attempt,
\* and the attempt's outcome is no response and an error whose text
\* contains "middleware error".
C10_MiddlewareError ==
    mwErrAt > 0
    => /\ Len(mwLog) = mwErrAt
       /\ ~exchanged
       /\ Len(outcomes) = attempts
       /\ outcomes[attempts].resp.nil
       /\ Contains(outcomes[attempts].err, "middleware error")

C10_Witness ==
    /\ mwErrAt = 1
    /\ Len(c.middlewares) = 2
    /\ attempts = 2
    /\ pc = "decide"

\* the attempt outcome o is an error of a middleware or of the transport
AttemptError(o) ==
    /\ o.resp.nil
    /\ o.err # NoErr
    /\ o.err[1] \in {"middleware error", "failed to do http request"}

\* the lower-cased text of err contains none of the configured signatures
NoSignature(err) ==
    \/ c.retryConfig.nil
    \/ \A sig \in c.retryConfig.retryableError : ~ContainsLower(err, sig)

\* C11: an attempt that ends in a middleware or transport error whose
\* lower-cased text contains none of the configured signatures is the last
\* attempt of the call, also when attempts remain, and the call returns no
\* response and that error.
C11_NonRetryableError ==
    \A i \in 1..Len(outcomes) :
        (AttemptError(outcomes[i]) /\ NoSignature(outcomes[i].err))
        => /\ Len(outcomes) = i
           /\ attempts = i
           /\ waits = i - 1
           /\ pc \in {"decide", "done"}
           /\ pc = "done" => ret = [resp |-> NilResponse, err |-> outcomes[i].err]

C11_Witness ==
    /\ pc = "done"
    /\ ~c.retryConfig.nil
    /\ attempts = 2
    /\ maxAttempts = 4
    /\ RetryableStatus(outcomes[1])
    /\ AttemptError(outcomes[2])
    /\ NoSignature(outcomes[2].err)
    /\ ret.err = outcomes[2].err

\* C12: when the call has returned and its last attempt ended in a
\* middleware or transport error, being the last because the attempts were
\* exhausted or because the error matches no signature, the call returned
\* that attempt's error, which is not nil.
C12_LastErrorReturned ==
    (/\ pc = "done"
     /\ attempts >= 1
     /\ Len(outcomes) = attempts
     /\ AttemptError(outcomes[attempts])
     /\ (attempts = maxAttempts \/ NoSignature(outcomes[attempts].err)))
    => /\ ret.err # NoErr
       /\ ret.err = outcomes[attempts].err

C12_Witness ==
    /\ pc = "done"
    /\ maxAttempts = 2
    /\ attempts = maxAttempts
    /\ AttemptError(outcomes[1])
    /\ AttemptError(outcomes[2])
    /\ ~NoSignature(outcomes[2].err)
    /\ ret.err = outcomes[2].err

\* C13: whenever the call returns a response, for every sequence of attempt
\* outcomes and every retry configuration, its retryAttempts is the number
\* of attempts the call made minus one.
C13_RetryAttemptsCount ==
    (pc = "done" /\ ~ret.resp.nil)
    => ret.resp.retryAttempts = attempts - 1

C13_Witness ==
    /\ pc = "done"
    /\ ~ret.resp.nil
    /\ attempts = 3
    /\ AttemptError(outcomes[1])
    /\ RetryableStatus(outcomes[2])
    /\ TerminalStatus(outcomes[3])
    /\ ret.resp.retryAttempts = 2

\* the number of attempts the client's configuration allows
AllowedAttempts ==
    IF c.retryConfig.nil THEN 1 ELSE c.retryConfig.maxRetries + 1

\* C14: for every sequence of attempt outcomes the call never makes more
\* attempts than maxRetries + 1 when retries are configured, or than 1 when
\* they are not, and when it returns it has made at least one attempt
\* unless the signal had fired before the first.
C14_AttemptBounds ==
    pc \notin {"builder", "idle"}
    => /\ attempts <= AllowedAttempts
       /\ pc = "done" => (attempts >= 1 \/ CancelledBeforeFirstAttempt)

\* C15: the attempts of a call are sequential. Attempt N+1 starts only when
\* the outcomes of the N attempts before it are known and, for N >= 1, the
\* N-th backoff wait has begun and has been ended by its timer; the
\* middleware run and the exchange of attempt N+1 start only after that.
C15_SequentialAttempts ==
    [][/\ attempts' # attempts
            => /\ attempts' = attempts + 1
               /\ Len(outcomes) = attempts
               /\ waits = attempts
               /\ waitsDone = attempts
               /\ attempts >= 1 => timerFired
               /\ sel = "none"
       /\ (chainRuns' # chainRuns \/ mwLog' # mwLog \/ exchanges' # exchanges)
            => /\ attempts' >= 1
               /\ Len(outcomes) = attempts' - 1
               /\ waitsDone = attempts' - 1
               /\ exchanges <= attempts' - 1]_vars

C15_Witness ==
    /\ pc = "transport"
    /\ attempts = 3
    /\ exchanges = 3
    /\ waitsDone = 2
    /\ Len(outcomes) = 2

\* C16: shouldRetry returns true exactly when the client has a retry
\* configuration, the response is not nil and its status code is one of the
\* configured retryable status codes; it returns false with no
\* configuration and with a nil response.
C16_ShouldRetry ==
    predRet.fn = "shouldRetry"
    => /\ predRet.value <=> (/\ ~c.retryConfig.nil
                              /\ ~argResp.nil
                              /\ \E code \in c.retryConfig.retryableStatusCodes :
                                    code = argResp.statusCode)
       /\ c.retryConfig.nil => ~predRet.value
       /\ argResp.nil => ~predRet.value

C16_Witness ==
    /\ predRet.fn = "shouldRetry"
    /\ predRet.value
    /\ argResp.statusCode = 404
    /\ c.retryConfig.retryableStatusCodes = {404}

\* the texts of e1 and e2 differ at most in the case of their letters
SameTextIgnoringCase(e1, e2) ==
    /\ Len(e1) = Len(e2)
    /\ \A i \in 1..Len(e1) : ToLower(e1[i]) = ToLower(e2[i])

\* C17: shouldRetryError returns true exactly when the client has a retry
\* configuration, the error is not nil and its lower-cased text contains
\* one of the configured signatures; errors whose texts differ only in the
\* case of their letters get the same answer.
C17_ShouldRetryError ==
    predRet.fn = "shouldRetryError"
    => /\ predRet.value <=> (/\ ~c.retryConfig.nil
                              /\ argErr # NoErr
                              /\ \E sig \in c.retryConfig.retryableError :
                                    \E i \in 1..Len(argErr) :
                                        HasSubstring(ToLower(argErr[i]), sig))
       /\ \A e \in PredicateErrors :
            SameTextIgnoringCase(e, argErr)
            => shouldRetryError(c.retryConfig, e) = predRet.value

C17_Witness ==
    /\ predRet.fn = "shouldRetryError"
    /\ predRet.value
    /\ argErr = <<"auth TIMEOUT">>
    /\ "timeout" \in c.retryConfig.retryableError

\* min(baseDelay * multiplier^count, maxDelay) in whole ticks
CappedProduct(e, count) ==
    IF Trunc(e.baseDelay * Pow(e.multiplier, count)[1], Pow(e.multiplier, count)[2])
           > e.maxDelay
    THEN e.maxDelay
    ELSE Trunc(e.baseDelay * Pow(e.multiplier, count)[1], Pow(e.multiplier, count)[2])

\* C18: for every attempt >= 0, Delay of an exponential backoff with jitter
\* off is min(baseDelay * multiplier^attempt, maxDelay), and once the
\* product has reached maxDelay the result is maxDelay for every larger
\* attempt.
C18_ExponentialDelay ==
    (/\ delayRet.called
     /\ strategy.kind = "exponential"
     /\ ~strategy.jitter
     /\ delayRet.count >= 0)
    => /\ delayRet.value = CappedProduct(strategy, delayRet.count)
       /\ (strategy.multiplier[1] >= strategy.multiplier[2]
            /\ \E n \in 0..delayRet.count : CappedProduct(strategy, n) = strategy.maxDelay)
           => delayRet.value = strategy.maxDelay

\* C19: Delay never returns a negative duration, for every strategy built
\* by the builders, jitter on or off, and every attempt number, those whose
\* product exceeds the range of a duration included.
C19_DelayNotNegative ==
    delayRet.called => delayRet.value >= 0

\* C20: with jitter on, the value Delay returns lies within
\* [0.75 * d, 1.25 * d] (in whole ticks), d being what the same strategy
\* returns for the same attempt with jitter off.
C20_JitterRange ==
    (delayRet.called /\ strategy.jitter)
    => /\ delayRet.value >=
            Trunc(3 * Delay([strategy EXCEPT !.jitter = FALSE], delayRet.count, goarch, 0), 4)
       /\ 4 * delayRet.value <=
            5 * Delay([strategy EXCEPT !.jitter = FALSE], delayRet.count, goarch, 0)

\* C21: the wait before the first retry of a call, under an exponential
\* backoff with jitter off, is the configured base delay.
C21_FirstRetryWait ==
    (/\ pc = "backoff"
     /\ attempt = 1
     /\ BackoffStrategyOf(c.retryConfig).kind = "exponential"
     /\ ~BackoffStrategyOf(c.retryConfig).jitter)
    => waitDelay = BackoffStrategyOf(c.retryConfig).baseDelay

\* C22: maxDelay is a cap on the delays of an exponential backoff built with
\* any settings: Delay returns at most maxDelay for every attempt, jitter
\* on or off.
C22_MaxDelayCap ==
    (delayRet.called /\ strategy.kind = "exponential")
    => delayRet.value <= strategy.maxDelay

\* the strategy NewExponentialBackoffBuilder().Build() returns: 100ms, x2,
\* at most 10s, no jitter
DefaultExponential ==
    [kind |-> "exponential", built |-> TRUE, baseDelay |-> 1, multiplier |-> <<2, 1>>,
     maxDelay |-> 100, delay |-> 0, jitter |-> FALSE]

\* C23: Build of a retry-config builder returns a configuration with every
\* field populated, after any With* calls: maxRetries >= 1 (a value <= 0
\* became 3), status codes non-empty (empty became 429, 500, 502, 503, 504),
\* error signatures non-empty (empty became the four defaults), a backoff
\* strategy that is not nil (nil became the default exponential one); a
\* value that is not degenerate is the one the builder held.
C23_BuildPopulated ==
    buildRet.called =>
        LET given == buildRet.arg
            built == buildRet.value
        IN /\ ~built.nil
           /\ built.maxRetries >= 1
           /\ built.maxRetries = IF given.maxRetries <= 0 THEN 3 ELSE given.maxRetries
           /\ built.retryableStatusCodes # {}
           /\ built.retryableStatusCodes =
                  IF given.retryableStatusCodes = {} THEN {429, 500, 502, 503, 504}
                  ELSE given.retryableStatusCodes
           /\ built.retryableError # {}
           /\ built.retryableError =
                  IF given.retryableError = {}
                  THEN {"connection refused", "timeout", "temporary failure",
                        "no such host"}
                  ELSE given.retryableError
           /\ BackoffStrategyOf(built) # NilStrategy
           /\ BackoffStrategyOf(built) =
                  IF given.backoffStrategy = "nil" THEN DefaultExponential
                  ELSE BackoffStrategyOf(given)

\* Build has returned for a builder with maxRetries 0, no status codes, own
\* error signatures and no strategy
C23_Witness ==
    /\ buildRet.called
    /\ buildRet.arg.maxRetries = 0
    /\ buildRet.arg.retryableStatusCodes = {}
    /\ buildRet.arg.retryableError = {"timeout"}
    /\ buildRet.arg.backoffStrategy = "nil"
    /\ buildRet.value.maxRetries = 3
    /\ buildRet.value.retryableError = {"timeout"}

\* C24: a new backoff builder has jitter off, and Build of a backoff builder
\* returns, after any With* calls, a strategy whose baseDelay, multiplier and
\* maxDelay (exponential) or delay (fixed) are > 0: a value <= 0 became its
\* default (100ms, 2, 10s; 1s for fixed), a value > 0 and the jitter switch
\* are the ones the builder held.
C24_BackoffBuildDefaults ==
    /\ (pc = "strategy" => ~strategy.jitter)
    /\ [][(pc = "strategy" /\ ~strategy.built /\ strategy'.built) =>
            /\ strategy'.kind = strategy.kind
            /\ strategy'.jitter = strategy.jitter
            /\ strategy.kind = "exponential" =>
                  /\ strategy'.baseDelay > 0
                  /\ strategy'.baseDelay =
                         IF strategy.baseDelay <= 0 THEN 1 ELSE strategy.baseDelay
                  /\ strategy'.multiplier[1] > 0
                  /\ strategy'.multiplier =
                         IF strategy.multiplier[1] <= 0 THEN <<2, 1>>
                         ELSE strategy.multiplier
                  /\ strategy'.maxDelay > 0
                  /\ strategy'.maxDelay =
                         IF strategy.maxDelay <= 0 THEN 100 ELSE strategy.maxDelay
            /\ strategy.kind = "fixed" =>
                  /\ strategy'.delay > 0
                  /\ strategy'.delay = IF strategy.delay <= 0 THEN 10 ELSE strategy.delay
       ]_vars

\* an exponential strategy was built from a builder given a base delay of 0,
\* a multiplier of 1/2, a maximum delay of 0 and jitter on: the degenerate
\* values are the defaults, the others are kept
C24_Witness ==
    /\ strategy.built
    /\ strategy.kind = "exponential"
    /\ strategy.baseDelay = 1
    /\ strategy.multiplier = <<1, 2>>
    /\ strategy.maxDelay = 100
    /\ strategy.jitter

\* C25: a retry configuration is immutable once built: the configuration
\* Build returned, which is the builder's own, keeps the maxRetries, status
\* codes, error signatures and backoff strategy it was returned with,
\* whatever is called on the builder afterwards.
C25_ImmutableOnceBuilt ==
    buildRet.called =>
        /\ rb.maxRetries = buildRet.value.maxRetries
        /\ rb.retryableStatusCodes = buildRet.value.retryableStatusCodes
        /\ rb.retryableError = buildRet.value.retryableError
        /\ rb.backoffStrategy = buildRet.value.backoffStrategy

\* what the call with the locals g returns, as its own arguments, its own
\* cancellation signal and the outcomes of its own attempts determine it
OwnResult(g) ==
    LET n == Len(g.outcomes)
        last == g.outcomes[n]
        maxAtt == MaxAttempts(c.retryConfig)
    IN  \/ /\ g.ctxErr # NoErr
           /\ g.ret = [resp |-> NilResponse, err |-> g.ctxErr]
        \/ /\ n >= 1
           /\ IF last.err = NoErr /\ ~shouldRetry(c.retryConfig, last.resp)
              THEN g.ret = [resp |-> [last.resp EXCEPT !.retryAttempts = n - 1],
                            err |-> NoErr]
              ELSE /\ g.ret.err = last.err
                   /\ g.ret.resp.nil = last.resp.nil
                   /\ ~last.resp.nil =>
                         /\ g.ret.resp.statusCode = last.resp.statusCode
                         /\ g.ret.resp.retryAttempts = maxAtt - 1
                   /\ \/ n = maxAtt
                      \/ ~(\/ shouldRetryError(c.retryConfig, last.err)
                           \/ shouldRetry(c.retryConfig, last.resp))

\* the call with the locals g is on its own: the transport saw the body the
\* call was given in each of its exchanges, the call made no more attempts
\* than the client's configuration allows, every attempt but the last asked
\* for a retry, and its result is its own
OwnCall(g) ==
    /\ \A i \in 1..Len(g.seenBodies) : g.seenBodies[i] = g.argBody
    /\ Len(g.seenBodies) <= Len(g.outcomes)
    /\ Len(g.outcomes) <= MaxAttempts(c.retryConfig)
    /\ \A i \in 1..(Len(g.outcomes) - 1) :
          \/ shouldRetryError(c.retryConfig, g.outcomes[i].err)
          \/ shouldRetry(c.retryConfig, g.outcomes[i].resp)
    /\ g.pc = "done" => OwnResult(g)

\* C26: while logical calls run concurrently on one built client, no step
\* of a call changes the client's middleware list or retry configuration, and
\* each call's attempts, the request bodies the transport sees, the
\* retryAttempts and the result it returns depend on that call's own
\* arguments, cancellation signal and attempt outcomes only.
C26_ConcurrentCalls ==
    /\ [](pc = "concurrent" => \A k \in Calls : OwnCall(calls[k]))
    /\ [][pc = "concurrent" => c' = c]_vars

\* both calls are in flight at the same time: one posted a body, was
\* answered 503 and waits for its retry, the other, a Get without a body,
\* has just been answered 200
C26_Witness ==
    /\ pc = "concurrent"
    /\ calls[1].pc = "backoff"
    /\ calls[1].argBody # <<>>
    /\ calls[1].seenBodies = <<calls[1].argBody>>
    /\ calls[1].outcomes[1].resp.statusCode = 503
    /\ calls[2].pc = "decide"
    /\ calls[2].argBody = <<>>
    /\ calls[2].seenBodies = <<(<<>>)>>
    /\ calls[2].resp.statusCode = 200

\* every attempt of the call was answered with a status of codes
AlwaysAnswered(codes) ==
    /\ Len(outcomes) >= 1
    /\ \A i \in 1..Len(outcomes) :
          /\ outcomes[i].err = NoErr
          /\ outcomes[i].resp.statusCode \in codes

\* C27: a call on a client built with WithRetries(), never cancelled,
\* returns after exactly 4 attempts with retryAttempts = 3 when the server
\* answered each of them 429, 500, 502, 503 or 504, and after exactly 1
\* attempt with retryAttempts = 0 when the server answered 400 or 404.
C27_DefaultRetries ==
    (pc = "done" /\ ~c.retryConfig.nil /\ ctxErr = NoErr) =>
        /\ AlwaysAnswered({429, 500, 502, 503, 504}) =>
              /\ attempts = 4
              /\ exchanges = 4
              /\ ret.err = NoErr
              /\ ret.resp.retryAttempts = 3
        /\ AlwaysAnswered({400, 404}) =>
              /\ attempts = 1
              /\ exchanges = 1
              /\ ret.err = NoErr
              /\ ret.resp.retryAttempts = 0

\* the server answered 429, 500, 502 and 504 to the four attempts of a call
\* on a client built with WithRetries()
C27_Witness ==
    /\ pc = "done"
    /\ ~c.retryConfig.nil
    /\ ctxErr = NoErr
    /\ Len(outcomes) = 4
    /\ outcomes[1].resp.statusCode = 429
    /\ outcomes[2].resp.statusCode = 500
    /\ outcomes[3].resp.statusCode = 502
    /\ outcomes[4].resp.statusCode = 504
    /\ ret.resp.statusCode = 504
    /\ ret.resp.retryAttempts = 3

\* C28: a fixed backoff with jitter off returns its configured delay for
\* every attempt number, attempt 0 included.
C28_FixedDelay ==
    (delayRet.called /\ strategy.kind = "fixed" /\ ~strategy.jitter)
    => delayRet.value = strategy.delay

\* Delay(0) of a fixed backoff of 300ms without jitter has returned 300ms
C28_Witness ==
    /\ delayRet.called
    /\ strategy.kind = "fixed"
    /\ ~strategy.jitter
    /\ strategy.delay = 3
    /\ delayRet.count = 0
    /\ delayRet.value = 3

\* what the strategy returns for the attempt of the last call with its
\* jitter switched off
Unjittered == Delay([strategy EXCEPT !.jitter = FALSE], delayRet.count, goarch, 0)

\* C29: with jitter on, the offset is drawn anew on every Delay call: after
\* a call, the next call with the same attempt number can make a draw other
\* than the last, and, the delay before jitter being positive, return a
\* value other than the last.
C29_JitterRedrawn ==
    (pc = "strategy" /\ delayRet.called /\ strategy.jitter) =>
        ENABLED (\E rnd \in 0..(JitterDraws - 1) :
                    /\ CallDelay(delayRet.count, rnd)
                    /\ delayRet'.rnd # delayRet.rnd
                    /\ Unjittered > 0 => delayRet'.value # delayRet.value)

\* Delay(2) of a fixed backoff of 300ms with jitter on has returned 200ms,
\* and the next Delay(2) can return 300ms
C29_Witness ==
    /\ delayRet.called
    /\ strategy.kind = "fixed"
    /\ strategy.jitter
    /\ strategy.delay = 3
    /\ delayRet.count = 2
    /\ delayRet.value = 2
    /\ ENABLED (CallDelay(2, 3) /\ delayRet'.value = 3)

\* the URL of the last call starts with "http://" or "https://"
AbsoluteURL ==
    /\ Len(urlRet.url) >= 3
    /\ urlRet.url[1] \in {"http:", "https:"}
    /\ urlRet.url[2] = "/"
    /\ urlRet.url[3] = "/"

\* rest is url without its first k pieces, which are all the slashes url
\* starts with
WithoutLeadingSlashes(url, k, rest) ==
    /\ \A i \in 1..k : url[i] = "/"
    /\ k < Len(url) => url[k + 1] # "/"
    /\ rest = SubSeq(url, k + 1, Len(url))

\* C30: buildURL returns the URL it is given when the client has no base URL
\* or the URL starts with "http://" or "https://"; otherwise it returns the
\* base URL, one "/" and the URL without its leading slashes: the base URL
\* does not end with a slash and the rest does not start with one, so the
\* join holds exactly one.
C30_BuildURL ==
    urlRet.called =>
        IF baseURL = <<>> \/ AbsoluteURL
        THEN urlRet.value = urlRet.url
        ELSE /\ baseURL[Len(baseURL)] # "/"
             /\ \E k \in 0..Len(urlRet.url) :
                   WithoutLeadingSlashes(urlRet.url, k,
                       SubSeq(urlRet.value, Len(baseURL) + 2, Len(urlRet.value)))
             /\ SubSeq(urlRet.value, 1, Len(baseURL) + 1) = baseURL \o <<"/">>

\* buildURL("//a") on a client built with the base URL "https://a/" has
\* returned "https://a/a"
C30_Witness ==
    /\ urlRet.called
    /\ baseURL = <<"https:", "/", "/", "a">>
    /\ urlRet.url = <<"/", "/", "a">>
    /\ urlRet.value = <<"https:", "/", "/", "a", "/", "a">>

\* the attempt outcome o is retryable: a response with a status of the
\* retryable set, or an error whose text holds a configured signature
RetryableOutcome(o) ==
    \/ RetryableStatus(o)
    \/ o.err # NoErr /\ ~NoSignature(o.err)

\* C31: in a call that is not cancelled, attempt k+1 is started if and only
\* if retries are configured, k is not the last allowed attempt and the
\* outcome of attempt k is retryable, by its status or by its error: every
\* attempt that was followed by another meets the three conditions, and the
\* last attempt of a call that has returned fails one of them.
C31_NextAttempt ==
    (ctxErr = NoErr /\ pc \notin {"builder", "idle"}) =>
        /\ \A k \in 1..(attempts - 1) :
              /\ ~c.retryConfig.nil
              /\ k < AllowedAttempts
              /\ RetryableOutcome(outcomes[k])
        /\ (pc = "done" /\ attempts >= 1) =>
              ~(/\ ~c.retryConfig.nil
                /\ attempts < AllowedAttempts
                /\ RetryableOutcome(outcomes[attempts]))

\* the two triggers alternate in one call: the first attempt was answered
\* with a retryable status, the second ended in a retryable error, and a
\* third attempt was started
C31_Witness ==
    /\ ctxErr = NoErr
    /\ attempts = 3
    /\ RetryableStatus(outcomes[1])
    /\ outcomes[2].err # NoErr
    /\ ~NoSignature(outcomes[2].err)

\* C32: in a call that is not cancelled no backoff wait precedes the first
\* attempt, one wait of Delay(k) precedes attempt k for every k >= 1 (k
\* counted from 0), every wait runs to its end and none follows the last
\* attempt: the call returns having waited once less than it made attempts.
C32_BackoffWaits ==
    (ctxErr = NoErr /\ pc \notin {"builder", "idle"}) =>
        /\ attempts = 0 => waits = 0
        /\ pc = "backoff" =>
              /\ attempts >= 1
              /\ waits = attempts
              /\ waitsDone = attempts - 1
              /\ \E rnd \in 0..(JitterDraws - 1) :
                    waitDelay = Delay(BackoffStrategyOf(c.retryConfig), attempts, goarch, rnd)
        /\ pc = "executeOnce" => (waits = attempts /\ waitsDone = attempts)
        /\ (pc \notin {"backoff", "executeOnce", "done"} /\ attempts >= 1) =>
              (waits = attempts - 1 /\ waitsDone = attempts - 1)
        /\ pc = "done" => (waits = attempts - 1 /\ waitsDone = attempts - 1)

\* C33: every attempt runs the middleware chain on a request built for that
\* attempt: the first middleware of an attempt receives a request without any
\* header of an earlier attempt, and while the chain runs the request carries
\* the header of each middleware that has run in this attempt exactly once
C33_FreshRequest ==
    pc = "middleware" =>
        /\ req.header = SubSeq(c.middlewares, 1, mwIdx - 1)
        /\ mwIdx = 1 => req.header = <<>>

\* the first middleware of the third attempt is about to run, after two
\* attempts in which both middlewares added their header
C33_Witness ==
    /\ pc = "middleware"
    /\ attempts = 3
    /\ mwIdx = 1
    /\ Len(c.middlewares) = 2
    /\ outcomes[1].resp.statusCode = 503
    /\ outcomes[2].resp.statusCode = 503
    /\ req.header = <<>>

\* C34: every client a Build has returned still has the middlewares and the
\* base URL it was returned with, whatever was called on the builder
\* afterwards; two Builds never return the same client; and two Builds made
\* with the same builder fields returned clients with equal configuration
C34_BuiltClientKept ==
    pc = "clientBuilder" =>
        /\ \A i \in 1..Len(builds) :
              /\ heap[builds[i].ptr].middlewares = builds[i].client.middlewares
              /\ heap[builds[i].ptr].baseURL = builds[i].client.baseURL
              /\ builds[i].client.middlewares = builds[i].builder.middlewares
              /\ builds[i].client.baseURL = builds[i].builder.baseURL
        /\ \A i, j \in 1..Len(builds) :
              /\ i # j => builds[i].ptr # builds[j].ptr
              /\ builds[i].builder = builds[j].builder =>
                    heap[builds[i].ptr] = heap[builds[j].ptr]

\* a client built with one middleware and no base URL, then a second
\* middleware and a base URL given to the builder, then a second Build
C34_Witness ==
    /\ pc = "clientBuilder"
    /\ Len(builds) = 2
    /\ heap[builds[1].ptr].middlewares = <<"m1">>
    /\ heap[builds[1].ptr].baseURL = <<>>
    /\ cb.middlewares = <<"m1", "m2">>
    /\ cbBaseURL = <<"a", "/", "a">>
    /\ heap[builds[2].ptr].middlewares = <<"m1", "m2">>

\* C35: with jitter off, Delay is a pure function: what a call returned is
\* fixed by the strategy's fields and the attempt number, whatever
\* rand.Float64() would have drawn; a call changes neither the strategy nor
\* anything else but its own result; and a call made after another with the
\* same attempt number returns the same value
C35_DelayPure ==
    /\ []((pc = "strategy" /\ delayRet.called /\ ~strategy.jitter) =>
              delayRet.value = Unjittered)
    /\ [][(pc = "strategy" /\ strategy.built /\ ~strategy.jitter) =>
              /\ strategy' = strategy
              /\ goarch' = goarch
              /\ (delayRet.called /\ delayRet'.count = delayRet.count) =>
                    delayRet'.value = delayRet.value]_vars

\* Delay(2) of an exponential backoff without jitter, base 100ms and
\* multiplier 2, has returned 400ms in a call where rand.Float64() would have
\* drawn 3/4
C35_Witness ==
    /\ pc = "strategy"
    /\ delayRet.called
    /\ strategy.kind = "exponential"
    /\ ~strategy.jitter
    /\ strategy.baseDelay = 1
    /\ strategy.multiplier = <<2, 1>>
    /\ delayRet.count = 2
    /\ delayRet.rnd = 3
    /\ delayRet.value = 4

\* C36: every return of a logical call yields exactly one of a response and
\* an error: a response without an error, or an error without a response
C36_ResponseOrError ==
    pc = "done" => ((~ret.resp.nil) # (ret.err # NoErr))

\* C37: when a call has returned, every response body the transport
\* delivered during the call is closed, unless it is the body of the
\* response the call returned
C37_BodiesClosed ==
    pc = "done" =>
        \A k \in 1..Len(respBodies) :
            respBodies[k] = "open" => (k = Len(respBodies) /\ ~ret.resp.nil)

\* C38: every logical call terminates: a call that has begun eventually
\* returns to its caller, whatever the outcomes of its attempts, once the
\* transport answers every exchange and every backoff timer fires
C38_Terminates ==
    (pc \in {"loop", "backoff", "executeOnce", "middleware", "transport", "decide"})
        ~> (pc = "done")

\* C39: whenever applyBackoff calls Delay the client's backoff strategy is
\* not nil: the call never stands at a Delay on a missing strategy
C39_StrategyPresent ==
    pc \in {"backoff", "panic"} =>
        (~c.retryConfig.nil /\ c.retryConfig.backoffStrategy # "nil")

====
